---- MODULE Spec2Model ----
(***************************************************************************)
(* Model of the StashApp -> NFO converter: record-kind detection           *)
(* (parsers.py), field conversion, date normalisation and image            *)
(* extraction (converters.py), XML generation (nfo_generator.py) and the   *)
(* command-line pipeline (stash_to_nfo.py).                                *)
(*                                                                         *)
(* Python values are tagged records: the tag field "jt" names the type.    *)
(* Python strings are sequences of one-character strings, so that split,   *)
(* startswith, strptime and base64 decoding are computed, not assumed.     *)
(***************************************************************************)
EXTENDS Integers, Sequences, FiniteSets, TLC

VARIABLES
    pc,                 \* position of the running call / of main()
    stash_data,         \* the raw record (a dict: key -> value)
    data_type,          \* the record kind handed to convert / generate
    nfo_data,           \* outcome of convert: [ok, val] or [ok, exc]
    date_str,           \* argument of _convert_date
    date_out,           \* its return value
    pads_year,          \* platform: does strftime('%Y') zero-pad years < 1000
    image_bytes,        \* argument of _detect_image_format
    image_format,       \* its return value
    extracted_images,   \* StashToNfoConverter.extracted_images
    saved_images,       \* the list the latest extract_images call returned
    written,            \* the files the latest extract_images call wrote, in order
    fs,                 \* the file system: path -> bytes
    calls,              \* extract_images calls made so far
    output_path,        \* the output_path of the latest extract_images call
    faults,             \* the I/O faults the latest call met: field -> outcome
    frames,             \* the extract_images calls in progress: caller -> its locals
    args,               \* the parsed command line of main()
    nfo_xml,            \* outcome of generate
    exit_code,          \* exit status of main(), -1 while it runs
    heap,               \* the objects in memory: id -> list or dict of slots
    nfo_ref,            \* the id of the dict the latest convert returned, 0 before
    requests            \* the calls made to the StashApp client, in order, with their outcome

recVars == <<stash_data, data_type, nfo_data>>
dateVars == <<date_str, date_out>>
fmtVars == <<image_bytes, image_format>>
imgVars == <<extracted_images, saved_images, written, fs, calls, output_path, faults, frames>>
mainVars == <<args, nfo_xml, exit_code>>
heapVars == <<heap, nfo_ref>>

vars == <<pc, recVars, dateVars, pads_year, requests, fmtVars, imgVars, mainVars, heapVars>>

(***************************************************************************)
(* Python values                                                           *)
(***************************************************************************)
None == [jt |-> "none"]
JStr(s) == [jt |-> "str", val |-> s]
JInt(n) == [jt |-> "num", fl |-> FALSE, scale |-> 0, val |-> n]
JBool(b) == [jt |-> "bool", val |-> b]
JList(s) == [jt |-> "list", val |-> s]
JDict(f) == [jt |-> "dict", val |-> f]

\* the empty dict: a function with an empty domain
EmptyDict == [k \in {} |-> None]

IsStr(v) == v.jt = "str"
IsList(v) == v.jt = "list"
IsDict(v) == v.jt = "dict"

\* Python truthiness of a value
Truthy(v) ==
    CASE v.jt = "none" -> FALSE
      [] v.jt = "str"  -> Len(v.val) > 0
      [] v.jt = "num"  -> v.val # 0
      [] v.jt = "bool" -> v.val
      [] v.jt = "list" -> Len(v.val) > 0
      [] v.jt = "dict" -> DOMAIN v.val # {}
      [] OTHER -> TRUE

\* dict.get(key, default) on a dict modelled as a function
Get(d, k, default) == IF k \in DOMAIN d THEN d[k] ELSE default

\* d with d[k] = v added or replaced
Put(d, k, v) == [x \in (DOMAIN d) \cup {k} |-> IF x = k THEN v ELSE d[x]]

(***************************************************************************)
(* parsers.py: StashParser.detect_type                                     *)
(***************************************************************************)
AnyKey(data, keys) == \E k \in keys : k \in DOMAIN data

\* a plausible slip: the gallery rule tried before the performer rule
detect_type_gallery_first(data) ==
    IF /\ AnyKey(data, {"file", "duration", "performers"})
       /\ "file" \in DOMAIN data
       /\ IsDict(data["file"])
    THEN "scene"
    ELSE IF AnyKey(data, {"folder", "scenes"}) /\ "performers" \in DOMAIN data
    THEN "gallery"
    ELSE IF AnyKey(data, {"gender", "birthdate", "ethnicity", "measurements"})
    THEN "performer"
    ELSE IF AnyKey(data, {"title", "studio", "tags", "performers"})
    THEN "scene"
    ELSE "unknown"

detect_type(data) ==
    IF /\ AnyKey(data, {"file", "duration", "performers"})
       /\ "file" \in DOMAIN data
       /\ IsDict(data["file"])
    THEN "scene"
    ELSE IF AnyKey(data, {"gender", "birthdate", "ethnicity", "measurements"})
    THEN "performer"
    ELSE IF AnyKey(data, {"folder", "scenes"}) /\ "performers" \in DOMAIN data
    THEN "gallery"
    ELSE IF AnyKey(data, {"title", "studio", "tags", "performers"})
    THEN "scene"
    ELSE "unknown"

(***************************************************************************)
(* Python str helpers, on sequences of one-character strings               *)
(***************************************************************************)
Digits == {"0", "1", "2", "3", "4", "5", "6", "7", "8", "9"}

DigitVal(c) ==
    CASE c = "0" -> 0 [] c = "1" -> 1 [] c = "2" -> 2 [] c = "3" -> 3
      [] c = "4" -> 4 [] c = "5" -> 5 [] c = "6" -> 6 [] c = "7" -> 7
      [] c = "8" -> 8 [] c = "9" -> 9

DigitChar(n) ==
    CASE n = 0 -> "0" [] n = 1 -> "1" [] n = 2 -> "2" [] n = 3 -> "3"
      [] n = 4 -> "4" [] n = 5 -> "5" [] n = 6 -> "6" [] n = 7 -> "7"
      [] n = 8 -> "8" [] n = 9 -> "9"

\* s[from:] (1-based, inclusive)
Drop(s, n) == SubSeq(s, n + 1, Len(s))
Take(s, n) == SubSeq(s, 1, IF n < Len(s) THEN n ELSE Len(s))

\* s.startswith(p)
StartsWith(s, p) == Len(s) >= Len(p) /\ SubSeq(s, 1, Len(p)) = p

\* index of the first occurrence of character c in s, 0 when there is none
Find(s, c) ==
    LET hits == {i \in 1..Len(s) : s[i] = c}
    IN  IF hits = {} THEN 0 ELSE CHOOSE i \in hits : \A j \in hits : i <= j

\* s.split(c)[0]
SplitHead(s, c) == IF Find(s, c) = 0 THEN s ELSE SubSeq(s, 1, Find(s, c) - 1)

\* s.split(c, 1)[1]; raises IndexError when c does not occur
SplitTail(s, c) ==
    IF Find(s, c) = 0 THEN [ok |-> FALSE, exc |-> "IndexError"]
    ELSE [ok |-> TRUE, val |-> Drop(s, Find(s, c))]

\* int(s) for a string of digits with optional leading blanks
RECURSIVE StrToInt(_)
StrToInt(s) ==
    IF s = <<>> THEN 0
    ELSE IF s[Len(s)] = " " THEN 0
    ELSE 10 * StrToInt(SubSeq(s, 1, Len(s) - 1)) + DigitVal(s[Len(s)])

\* str(n) for n >= 0
RECURSIVE IntToStr(_)
IntToStr(n) ==
    IF n < 10 THEN <<DigitChar(n)>>
    ELSE Append(IntToStr(n \div 10), DigitChar(n % 10))

\* zero-fill to width w
RECURSIVE ZFill(_, _)
ZFill(s, w) == IF Len(s) >= w THEN s ELSE ZFill(<<"0">> \o s, w)

(***************************************************************************)
(* datetime.strptime / strftime as _convert_date and the year derivation   *)
(* use them.  strptime compiles the format to a regular expression: %Y is  *)
(* \d\d\d\d, %m is 1[0-2]|0[1-9]|[1-9], %d is                              *)
(* 3[01]|[12]\d|0[1-9]|[1-9]| [1-9]; the match is anchored at the start,   *)
(* alternatives are tried in order with backtracking, and text left over   *)
(* after the match raises ValueError.                                      *)
(***************************************************************************)
NAlts(dir) == CASE dir = "Y" -> 1 [] dir = "m" -> 3 [] dir = "d" -> 5 [] OTHER -> 0

AltLen(dir, i) ==
    CASE dir = "Y" -> 4
      [] dir = "m" -> IF i = 3 THEN 1 ELSE 2
      [] dir = "d" -> IF i = 4 THEN 1 ELSE 2

AltMatches(dir, i, tok) ==
    IF dir = "Y" THEN \A k \in 1..4 : tok[k] \in Digits
    ELSE IF dir = "m" THEN
        CASE i = 1 -> tok[1] = "1" /\ tok[2] \in {"0", "1", "2"}
          [] i = 2 -> tok[1] = "0" /\ tok[2] \in Digits \ {"0"}
          [] i = 3 -> tok[1] \in Digits \ {"0"}
    ELSE
        CASE i = 1 -> tok[1] = "3" /\ tok[2] \in {"0", "1"}
          [] i = 2 -> tok[1] \in {"1", "2"} /\ tok[2] \in Digits
          [] i = 3 -> tok[1] = "0" /\ tok[2] \in Digits \ {"0"}
          [] i = 4 -> tok[1] \in Digits \ {"0"}
          [] i = 5 -> tok[1] = " " /\ tok[2] \in Digits \ {"0"}

NoMatch == [ok |-> FALSE, used |-> 0, f |-> [k \in {} |-> <<>>]]

\* re.match of the compiled format against s: the groups found and the
\* number of characters the match consumed
RECURSIVE RegexMatch(_, _)
RegexMatch(fmt, s) ==
    IF fmt = <<>> THEN [ok |-> TRUE, used |-> 0, f |-> [k \in {} |-> <<>>]]
    ELSE IF fmt[1] = "%" THEN
        LET dir  == fmt[2]
            rest == Drop(fmt, 2)
            fits(i) == /\ Len(s) >= AltLen(dir, i)
                       /\ AltMatches(dir, i, Take(s, AltLen(dir, i)))
                       /\ RegexMatch(rest, Drop(s, AltLen(dir, i))).ok
            good == {i \in 1..NAlts(dir) : fits(i)}
        IN  IF good = {} THEN NoMatch
            ELSE LET i == CHOOSE x \in good : \A y \in good : x <= y
                     r == RegexMatch(rest, Drop(s, AltLen(dir, i)))
                 IN  [ok |-> TRUE, used |-> AltLen(dir, i) + r.used,
                      f |-> Put(r.f, dir, Take(s, AltLen(dir, i)))]
    ELSE IF s # <<>> /\ s[1] = fmt[1] THEN
        LET r == RegexMatch(Drop(fmt, 1), Drop(s, 1))
        IN  IF r.ok THEN [r EXCEPT !.used = r.used + 1] ELSE NoMatch
    ELSE NoMatch

IsLeap(y) == (y % 4 = 0 /\ y % 100 # 0) \/ y % 400 = 0

DaysInMonth(y, m) ==
    CASE m \in {4, 6, 9, 11} -> 30
      [] m = 2 -> IF IsLeap(y) THEN 29 ELSE 28
      [] OTHER -> 31

ValueError == [ok |-> FALSE, exc |-> "ValueError"]

\* datetime.strptime(s, fmt): the date, or ValueError
strptime(s, fmt) ==
    LET r == RegexMatch(fmt, s)
    IN  IF ~r.ok \/ r.used # Len(s) THEN ValueError
        ELSE LET y == StrToInt(r.f["Y"])
                 m == StrToInt(r.f["m"])
                 d == StrToInt(r.f["d"])
             IN  IF y < 1 \/ d > DaysInMonth(y, m) THEN ValueError
                 ELSE [ok |-> TRUE, year |-> y, month |-> m, day |-> d]

\* dt.strftime('%Y-%m-%d'): the C library renders %Y; glibc does not
\* zero-fill years below 1000, other platforms do (padYear)
strftime_ymd(dt, padYear) ==
    (IF padYear THEN ZFill(IntToStr(dt.year), 4) ELSE IntToStr(dt.year))
        \o <<"-">> \o ZFill(IntToStr(dt.month), 2)
        \o <<"-">> \o ZFill(IntToStr(dt.day), 2)

(***************************************************************************)
(* converters.py: StashToNfoConverter._convert_date                        *)
(***************************************************************************)
FmtYmd == <<"%", "Y", "-", "%", "m", "-", "%", "d">>

\* a plausible slip: the month-first layouts listed before the day-first
date_formats_month_first == <<
    FmtYmd,
    FmtYmd \o <<"T", "%", "H", ":", "%", "M", ":", "%", "S">>,
    FmtYmd \o <<"T", "%", "H", ":", "%", "M", ":", "%", "S", "%", "z">>,
    <<"%", "m", "/", "%", "d", "/", "%", "Y">>,
    <<"%", "d", "/", "%", "m", "/", "%", "Y">>,
    <<"%", "m", "-", "%", "d", "-", "%", "Y">>,
    <<"%", "d", "-", "%", "m", "-", "%", "Y">> >>

\* date_formats, in the order the list literal gives
date_formats == <<
    FmtYmd,
    FmtYmd \o <<"T", "%", "H", ":", "%", "M", ":", "%", "S">>,
    FmtYmd \o <<"T", "%", "H", ":", "%", "M", ":", "%", "S", "%", "z">>,
    <<"%", "d", "/", "%", "m", "/", "%", "Y">>,
    <<"%", "m", "/", "%", "d", "/", "%", "Y">>,
    <<"%", "d", "-", "%", "m", "-", "%", "Y">>,
    <<"%", "m", "-", "%", "d", "-", "%", "Y">> >>

\* the loop over date_formats, from format i on
RECURSIVE TryFormats(_, _, _)
TryFormats(s, i, padYear) ==
    IF i > Len(date_formats) THEN s
    ELSE LET dt == strptime(SplitHead(s, "T"), SplitHead(date_formats[i], "T"))
         IN  IF dt.ok THEN strftime_ymd(dt, padYear)
             ELSE TryFormats(s, i + 1, padYear)

\* a plausible slip: the fallback returns the date-only portion
convert_date_returns_head(s, padYear) ==
    IF s = <<>> THEN <<>>
    ELSE LET r == TryFormats(s, 1, padYear)
         IN  IF r = s THEN SplitHead(s, "T") ELSE r

convert_date(s, padYear) ==
    IF s = <<>> THEN <<>> ELSE TryFormats(s, 1, padYear)

(***************************************************************************)
(* Python numbers.  A number is val * 2^scale, so that an integer beyond   *)
(* the range of a double can be written; fl tells a float from an int.     *)
(***************************************************************************)
JNum(n, sc, isFloat) == [jt |-> "num", fl |-> isFloat, scale |-> sc, val |-> n]

\* float() raises OverflowError for an int of 2^DBL_MAX_EXP or more
DBL_MAX_EXP == 1024

OverflowError == [ok |-> FALSE, exc |-> "OverflowError"]
TypeError == [ok |-> FALSE, exc |-> "TypeError"]
AttributeError == [ok |-> FALSE, exc |-> "AttributeError"]

\* float(s) for a string: an optional '-' and one or more digits
IsNumericStr(s) ==
    LET body == IF s # <<>> /\ s[1] = "-" THEN Drop(s, 1) ELSE s
    IN  body # <<>> /\ \A i \in 1..Len(body) : body[i] \in Digits

StrNumVal(s) ==
    IF s[1] = "-" THEN 0 - StrToInt(Drop(s, 1)) ELSE StrToInt(s)

\* float(v)
PyFloat(v) ==
    CASE v.jt = "num" ->
            IF v.val # 0 /\ v.scale >= DBL_MAX_EXP THEN OverflowError
            ELSE [ok |-> TRUE, val |-> JNum(v.val, v.scale, TRUE)]
      [] v.jt = "bool" ->
            [ok |-> TRUE, val |-> JNum(IF v.val THEN 1 ELSE 0, 0, TRUE)]
      [] v.jt = "str" ->
            IF IsNumericStr(v.val)
            THEN [ok |-> TRUE, val |-> JNum(StrNumVal(v.val), 0, TRUE)]
            ELSE ValueError
      [] OTHER -> TypeError

\* 2^n
RECURSIVE Pow2(_)
Pow2(n) == IF n = 0 THEN 1 ELSE 2 * Pow2(n - 1)

\* int(x / 60) for a float x = val * 2^scale: the quotient truncated towards
\* zero
TruncDiv60(x) ==
    LET num == IF x.scale >= 0 THEN x.val * Pow2(x.scale) ELSE x.val
        den == IF x.scale >= 0 THEN 60 ELSE 60 * Pow2(0 - x.scale)
    IN  IF num >= 0 THEN num \div den ELSE 0 - ((0 - num) \div den)

(***************************************************************************)
(* converters.py: _convert_performers_to_actors                            *)
(***************************************************************************)
\* the loop body for the performer at 0-based index i: the actor appended,
\* or nothing for an entry that is neither a string nor a mapping
ActorOf(i, performer) ==
    IF IsStr(performer)
    THEN <<JDict([order |-> JInt(i), name |-> performer, role |-> JStr(<<>>)])>>
    ELSE IF IsDict(performer)
    THEN <<JDict([order |-> JInt(i),
                  name |-> Get(performer.val, "name", JStr(<<>>)),
                  role |-> Get(performer.val, "role", JStr(<<>>))])>>
    ELSE <<>>

\* the actors built from performers[0 .. n-1]
RECURSIVE ActorsUpTo(_, _)
ActorsUpTo(performers, n) ==
    IF n = 0 THEN <<>>
    ELSE ActorsUpTo(performers, n - 1) \o ActorOf(n - 1, performers[n])

\* a plausible slip: order counts the actors kept, not the input position
RECURSIVE ActorsRenumbered(_, _)
ActorsRenumbered(performers, n) ==
    IF n = 0 THEN <<>>
    ELSE LET before == ActorsRenumbered(performers, n - 1)
         IN  before \o ActorOf(Len(before), performers[n])

convert_performers_renumbered(performers) ==
    ActorsRenumbered(performers, Len(performers))

convert_performers_to_actors(performers) ==
    ActorsUpTo(performers, Len(performers))

(***************************************************************************)
(* converters.py: _convert_date on a Python value, and the date block      *)
(* shared by _convert_scene and _convert_gallery                           *)
(***************************************************************************)
\* _convert_date(v): v.split raises AttributeError unless v is a str
convert_date_value(v, padYear) ==
    IF ~Truthy(v) THEN [ok |-> TRUE, val |-> JStr(<<>>)]
    ELSE IF ~IsStr(v) THEN AttributeError
    ELSE [ok |-> TRUE, val |-> JStr(convert_date(v.val, padYear))]

\* a plausible slip: the year taken from the normalised date
YearOfNormalised(v) ==
    IF IsStr(v) /\ strptime(convert_date(v.val, TRUE), FmtYmd).ok
    THEN [ok |-> TRUE, year |-> strptime(convert_date(v.val, TRUE), FmtYmd).year]
    ELSE [ok |-> FALSE]

\* datetime.strptime(date_str, '%Y-%m-%d').year, ValueError and TypeError
\* swallowed: the year, or nothing
StrictYear(v) ==
    IF IsStr(v) /\ strptime(v.val, FmtYmd).ok
    THEN [ok |-> TRUE, year |-> strptime(v.val, FmtYmd).year]
    ELSE [ok |-> FALSE]

\* nfo_data with premiered and, when the strict parse gave one, year; or the
\* exception of _convert_date
WithDates(nfo, prem, yr) ==
    IF ~prem.ok THEN prem
    ELSE [ok |-> TRUE,
          val |-> IF yr.ok
                  THEN Put(Put(nfo, "premiered", prem.val), "year", JInt(yr.year))
                  ELSE Put(nfo, "premiered", prem.val)]

\* nfo_data after the date block (premiered, year), or the exception
DateBlock(nfo, data, padYear) ==
    IF ~Truthy(Get(data, "date", None)) THEN [ok |-> TRUE, val |-> nfo]
    ELSE WithDates(nfo, convert_date_value(Get(data, "date", None), padYear),
                   StrictYear(Get(data, "date", None)))

\* studio, uniqueid, genres and actors: the same in both converters
CommonBlock(nfo, data) ==
    LET n1 == Put(nfo, "studio", Get(data, "studio", JStr(<<>>)))
        url == Get(data, "url", None)
        n2 == IF Truthy(url)
              THEN Put(n1, "uniqueid",
                       JDict([type |-> JStr(<<"s", "t", "a", "s", "h">>),
                              value |-> url, default |-> JBool(TRUE)]))
              ELSE n1
        tags == Get(data, "tags", JList(<<>>))
        n3 == IF IsList(tags) THEN Put(n2, "genres", tags) ELSE n2
        performers == Get(data, "performers", JList(<<>>))
    IN  IF IsList(performers)
        THEN Put(n3, "actors",
                 JList(convert_performers_to_actors(performers.val)))
        ELSE n3

(***************************************************************************)
(* converters.py: _convert_scene                                           *)
(***************************************************************************)
\* the rating block: userrating, or the exception float() lets through
RatingBlock(data) ==
    LET rating == Get(data, "rating", None)
        f == PyFloat(rating)
    IN  IF rating.jt = "none" THEN [ok |-> TRUE, val |-> JInt(0)]
        ELSE IF f.ok THEN [ok |-> TRUE, val |-> JNum(f.val.val * 2, f.val.scale, TRUE)]
        ELSE IF f.exc \in {"ValueError", "TypeError"} THEN [ok |-> TRUE, val |-> JInt(0)]
        ELSE f

\* the file block: nfo_data with runtime set when there is a numeric duration
RuntimeBlock(nfo, data) ==
    LET file_info == Get(data, "file", JDict(EmptyDict))
        duration == IF IsDict(file_info) THEN Get(file_info.val, "duration", None)
                    ELSE None
        f == PyFloat(duration)
    IN  IF ~IsDict(file_info) \/ ~Truthy(duration) THEN [ok |-> TRUE, val |-> nfo]
        ELSE IF f.ok
        THEN [ok |-> TRUE, val |-> Put(nfo, "runtime", JInt(TruncDiv60(f.val)))]
        ELSE IF f.exc \in {"ValueError", "TypeError"} THEN [ok |-> TRUE, val |-> nfo]
        ELSE f

\* the rest of _convert_scene once the date block is done
SceneAfterDates(dated, data) ==
    IF ~dated.ok THEN dated
    ELSE RuntimeBlock(CommonBlock(dated.val, data), data)

\* the rest of _convert_scene once the rating block is done
SceneAfterRating(rating, data, padYear) ==
    IF ~rating.ok THEN rating
    ELSE SceneAfterDates(
             DateBlock([title |-> Get(data, "title", JStr(<<>>)),
                        originaltitle |-> Get(data, "title", JStr(<<>>)),
                        plot |-> Get(data, "details", JStr(<<>>)),
                        userrating |-> rating.val],
                       data, padYear),
             data)

convert_scene(data, padYear) == SceneAfterRating(RatingBlock(data), data, padYear)

(***************************************************************************)
(* converters.py: _convert_gallery                                         *)
(***************************************************************************)
\* the rest of _convert_gallery once the date block is done
GalleryAfterDates(dated, data) ==
    IF ~dated.ok THEN dated
    ELSE [ok |-> TRUE,
          val |-> Put(CommonBlock(dated.val, data), "media_type",
                      JStr(<<"g", "a", "l", "l", "e", "r", "y">>))]

convert_gallery(data, padYear) ==
    GalleryAfterDates(
        DateBlock([title |-> Get(data, "title", JStr(<<>>)),
                   originaltitle |-> Get(data, "title", JStr(<<>>)),
                   plot |-> Get(data, "details", JStr(<<>>))],
                  data, padYear),
        data)

(***************************************************************************)
(* converters.py: _build_performer_biography and _convert_performer        *)
(***************************************************************************)
\* sep.join(parts), by halves
RECURSIVE JoinWith(_, _)
JoinWith(parts, sep) ==
    IF parts = <<>> THEN <<>>
    ELSE IF Len(parts) = 1 THEN parts[1]
    ELSE JoinWith(SubSeq(parts, 1, Len(parts) \div 2), sep) \o sep
         \o JoinWith(SubSeq(parts, Len(parts) \div 2 + 1, Len(parts)), sep)

\* the concatenation of a sequence of sequences
Concat(parts) == JoinWith(SubSeq(parts, 1, Len(parts)), <<>>)

\* str(v) as an f-string renders it, for the values a catalogue field holds:
\* a string, an integer, a boolean, or a list of strings
PyStr(v) ==
    CASE v.jt = "str" -> v.val
      [] v.jt = "num" /\ ~v.fl /\ v.scale = 0 ->
            IF v.val < 0 THEN <<"-">> \o IntToStr(0 - v.val) ELSE IntToStr(v.val)
      [] v.jt = "num" /\ v.fl /\ v.scale = 0 ->
            (IF v.val < 0 THEN <<"-">> \o IntToStr(0 - v.val) ELSE IntToStr(v.val))
                \o <<".", "0">>
      [] v.jt = "bool" -> IF v.val THEN <<"T", "r", "u", "e">> ELSE <<"F", "a", "l", "s", "e">>
      [] v.jt = "none" -> <<"N", "o", "n", "e">>
      [] v.jt = "list" /\ \A i \in 1..Len(v.val) : v.val[i].jt = "str" ->
            <<"[">> \o JoinWith([i \in 1..Len(v.val) |->
                                    <<"'">> \o v.val[i].val \o <<"'">>],
                                <<",", " ">>) \o <<"]">>

\* the fields of the biography read in the order of nfo_data['details']: eye
\* colour before height
bio_fields_in_details_order == <<
    [key |-> "gender", label |-> <<"G", "e", "n", "d", "e", "r">>],
    [key |-> "ethnicity", label |-> <<"E", "t", "h", "n", "i", "c", "i", "t", "y">>],
    [key |-> "country", label |-> <<"C", "o", "u", "n", "t", "r", "y">>],
    [key |-> "eye_color", label |-> <<"E", "y", "e", " ", "C", "o", "l", "o", "r">>],
    [key |-> "height", label |-> <<"H", "e", "i", "g", "h", "t">>],
    [key |-> "measurements", label |-> <<"M", "e", "a", "s", "u", "r", "e", "m", "e", "n", "t", "s">>],
    [key |-> "career_length", label |-> <<"C", "a", "r", "e", "e", "r", " ", "L", "e", "n", "g", "t", "h">>],
    [key |-> "tattoos", label |-> <<"T", "a", "t", "t", "o", "o", "s">>],
    [key |-> "piercings", label |-> <<"P", "i", "e", "r", "c", "i", "n", "g", "s">>] >>

\* the fields of the biography, in the order the code reads them
BioFields == <<
    [key |-> "gender", label |-> <<"G", "e", "n", "d", "e", "r">>],
    [key |-> "ethnicity", label |-> <<"E", "t", "h", "n", "i", "c", "i", "t", "y">>],
    [key |-> "country", label |-> <<"C", "o", "u", "n", "t", "r", "y">>],
    [key |-> "height", label |-> <<"H", "e", "i", "g", "h", "t">>],
    [key |-> "measurements", label |-> <<"M", "e", "a", "s", "u", "r", "e", "m", "e", "n", "t", "s">>],
    [key |-> "eye_color", label |-> <<"E", "y", "e", " ", "C", "o", "l", "o", "r">>],
    [key |-> "career_length", label |-> <<"C", "a", "r", "e", "e", "r", " ", "L", "e", "n", "g", "t", "h">>],
    [key |-> "tattoos", label |-> <<"T", "a", "t", "t", "o", "o", "s">>],
    [key |-> "piercings", label |-> <<"P", "i", "e", "r", "c", "i", "n", "g", "s">>] >>

\* bio_parts after the first n scalar fields
RECURSIVE BioParts(_, _)
BioParts(data, n) ==
    IF n = 0 THEN <<>>
    ELSE LET v == Get(data, BioFields[n].key, None)
         IN  IF Truthy(v)
             THEN Append(BioParts(data, n - 1),
                         BioFields[n].label \o <<":", " ">> \o PyStr(v))
             ELSE BioParts(data, n - 1)

\* the biography text, or TypeError when ', '.join meets an alias that is
\* not a string
build_performer_biography(data) ==
    LET parts == BioParts(data, Len(BioFields))
        aliases == Get(data, "aliases", JList(<<>>))
    IN  IF Truthy(aliases) /\ IsList(aliases)
        THEN IF \E i \in 1..Len(aliases.val) : ~IsStr(aliases.val[i])
             THEN TypeError
             ELSE [ok |-> TRUE,
                   val |-> JoinWith(
                       Append(parts,
                              <<"A", "l", "i", "a", "s", "e", "s">> \o <<":", " ">>
                              \o JoinWith([i \in 1..Len(aliases.val) |-> aliases.val[i].val],
                                          <<",", " ">>)),
                       <<"\n">>)]
        ELSE [ok |-> TRUE, val |-> JoinWith(parts, <<"\n">>)]

\* the keys of nfo_data['details'] in the order of the biography: height
\* before eye colour
details_keys_in_biography_order ==
    <<"gender", "ethnicity", "country", "height", "measurements", "eye_color",
      "tattoos", "piercings", "aliases">>

\* the keys of nfo_data['details'] and nfo_data['social'], in insertion order
DetailsKeys == <<"gender", "ethnicity", "country", "eye_color", "height",
                 "measurements", "tattoos", "piercings", "aliases">>
SocialKeys == <<"url", "twitter", "instagram">>

convert_performer(data, padYear) ==
    LET bio == build_performer_biography(data)
        base == [name |-> Get(data, "name", JStr(<<>>)),
                 biography |-> JStr(IF bio.ok THEN bio.val ELSE <<>>)]
        birthdate == Get(data, "birthdate", None)
        bd == convert_date_value(birthdate, padYear)
        n1 == IF Truthy(birthdate) THEN Put(base, "birthdate", bd.val) ELSE base
        details == [k \in {DetailsKeys[i] : i \in 1..Len(DetailsKeys)} |->
                        Get(data, k, IF k = "aliases" THEN JList(<<>>) ELSE JStr(<<>>))]
        social == [k \in {SocialKeys[i] : i \in 1..Len(SocialKeys)} |->
                        Get(data, k, JStr(<<>>))]
    IN  IF ~bio.ok THEN bio
        ELSE IF Truthy(birthdate) /\ ~bd.ok THEN bd
        ELSE [ok |-> TRUE,
              val |-> Put(Put(n1, "details", JDict(details)), "social", JDict(social))]

(***************************************************************************)
(* converters.py: StashToNfoConverter.convert                              *)
(***************************************************************************)
\* a plausible slip: an unrecognised kind converted as a scene
convert_defaults_to_scene(data, kind, padYear) ==
    IF kind = "performer" THEN convert_performer(data, padYear)
    ELSE IF kind = "gallery" THEN convert_gallery(data, padYear)
    ELSE convert_scene(data, padYear)

convert(data, kind, padYear) ==
    IF kind = "scene" THEN convert_scene(data, padYear)
    ELSE IF kind = "performer" THEN convert_performer(data, padYear)
    ELSE IF kind = "gallery" THEN convert_gallery(data, padYear)
    ELSE ValueError

(***************************************************************************)
(* converters.py: _detect_image_format.  Bytes are sequences of 0..255.    *)
(***************************************************************************)
SigJpeg == <<255, 216, 255>>
SigPng == <<137, 80, 78, 71, 13, 10, 26, 10>>
SigGif87a == <<71, 73, 70, 56, 55, 97>>
SigGif89a == <<71, 73, 70, 56, 57, 97>>
SigRiff == <<82, 73, 70, 70>>
SigWebp == <<87, 69, 66, 80>>
SigBm == <<66, 77>>

\* p in s (bytes or str)
Contains(s, p) ==
    \E i \in 1..(Len(s) - Len(p) + 1) : SubSeq(s, i, i + Len(p) - 1) = p

ExtJpg == JStr(<<"j", "p", "g">>)
ExtPng == JStr(<<"p", "n", "g">>)
ExtGif == JStr(<<"g", "i", "f">>)
ExtWebp == JStr(<<"w", "e", "b", "p">>)
ExtBmp == JStr(<<"b", "m", "p">>)

\* a plausible slip: no signature recognised means no format
detect_image_format_strict(bytes) ==
    IF bytes = <<>> THEN None
    ELSE IF StartsWith(bytes, SigJpeg) THEN ExtJpg
    ELSE IF StartsWith(bytes, SigPng) THEN ExtPng
    ELSE IF StartsWith(bytes, SigGif87a) \/ StartsWith(bytes, SigGif89a) THEN ExtGif
    ELSE IF StartsWith(bytes, SigRiff) /\ Contains(Take(bytes, 12), SigWebp) THEN ExtWebp
    ELSE IF StartsWith(bytes, SigBm) THEN ExtBmp
    ELSE None

detect_image_format(bytes) ==
    IF bytes = <<>> THEN None
    ELSE IF StartsWith(bytes, SigJpeg) THEN ExtJpg
    ELSE IF StartsWith(bytes, SigPng) THEN ExtPng
    ELSE IF StartsWith(bytes, SigGif87a) \/ StartsWith(bytes, SigGif89a) THEN ExtGif
    ELSE IF StartsWith(bytes, SigRiff) /\ Contains(Take(bytes, 12), SigWebp) THEN ExtWebp
    ELSE IF StartsWith(bytes, SigBm) THEN ExtBmp
    ELSE ExtJpg

(***************************************************************************)
(* base64.b64decode as _save_base64_image calls it (validate=False):       *)
(* characters outside the alphabet are skipped, a complete pad ends the    *)
(* input, and a dangling group raises binascii.Error.                      *)
(***************************************************************************)
B64Alphabet == <<
    "A", "B", "C", "D", "E", "F", "G", "H", "I", "J", "K", "L", "M", "N", "O", "P",
    "Q", "R", "S", "T", "U", "V", "W", "X", "Y", "Z", "a", "b", "c", "d", "e", "f",
    "g", "h", "i", "j", "k", "l", "m", "n", "o", "p", "q", "r", "s", "t", "u", "v",
    "w", "x", "y", "z", "0", "1", "2", "3", "4", "5", "6", "7", "8", "9", "+", "/" >>

\* the 6-bit value of c, 64 for a character outside the alphabet
B64Val(c) ==
    IF \E i \in 1..64 : B64Alphabet[i] = c
    THEN (CHOOSE i \in 1..64 : B64Alphabet[i] = c) - 1
    ELSE 64

BinasciiError == [ok |-> FALSE, exc |-> "binascii.Error"]

\* the decoding stops at the '=' at i that completes a pad: quad, the number
\* of alphabet characters before it modulo 4, is at least 2, and quad plus
\* the '=' seen since the last alphabet character, this one included, reach 4
B64Ends(s, i) ==
    LET quad == Cardinality({j \in 1..(i - 1) : B64Val(s[j]) < 64}) % 4
        pads == Cardinality({j \in 1..(i - 1) :
                                s[j] = "=" /\ \A k \in j..(i - 1) : B64Val(s[k]) >= 64})
    IN  s[i] = "=" /\ quad >= 2 /\ quad + pads + 1 >= 4

\* the bytes of the alphabet characters at the positions at: none for the
\* first of a group of four, one for each of the others, made of the bits
\* left over from the character before and the high bits of this one
B64Bytes(s, at) ==
    Concat([k \in 1..Len(at) |->
               CASE k % 4 = 1 -> <<>>
                 [] k % 4 = 2 ->
                       <<B64Val(s[at[k - 1]]) * 4 + B64Val(s[at[k]]) \div 16>>
                 [] k % 4 = 3 ->
                       <<(B64Val(s[at[k - 1]]) % 16) * 16 + B64Val(s[at[k]]) \div 4>>
                 [] OTHER ->
                       <<(B64Val(s[at[k - 1]]) % 4) * 64 + B64Val(s[at[k]])>>])

\* base64.b64decode(s): the characters up to the first complete pad are
\* decoded; without a pad a dangling group raises binascii.Error
b64decode(s) ==
    LET ends == {i \in 1..Len(s) : B64Ends(s, i)}
        stop == IF ends = {} THEN Len(s) + 1
                ELSE CHOOSE i \in ends : \A j \in ends : i <= j
        at == SelectSeq([i \in 1..(stop - 1) |-> i], LAMBDA i : B64Val(s[i]) < 64)
    IN  IF ends = {} /\ Len(at) % 4 # 0 THEN BinasciiError
        ELSE [ok |-> TRUE, val |-> B64Bytes(s, at)]

(***************************************************************************)
(* converters.py: _save_base64_image and extract_images.  The state the    *)
(* two methods work on is st = [fs, extracted_images, written]; io names   *)
(* what the file system does when a field's file is opened and written:    *)
(* "ok", "open_fails" (open raises OSError, nothing changes) or            *)
(* "write_fails" (the file is created or truncated, then write raises).    *)
(***************************************************************************)
TypePoster == <<"p", "o", "s", "t", "e", "r">>
TypeThumb == <<"t", "h", "u", "m", "b">>
TypeFanart == <<"f", "a", "n", "a", "r", "t">>

\* image_fields, in the order the dict literal lists them
image_fields == <<
    [field |-> "cover", type |-> TypePoster],
    [field |-> "image", type |-> TypeThumb],
    [field |-> "poster", type |-> TypePoster],
    [field |-> "thumbnail", type |-> TypeThumb],
    [field |-> "fanart", type |-> TypeFanart] >>

DataPrefix == <<"d", "a", "t", "a", ":">>

\* the filename of an image of the given type and format
ImageFilename(base_name, image_type, image_format_ext) ==
    IF image_type \in {TypePoster, TypeFanart}
    THEN image_type \o <<".">> \o image_format_ext
    ELSE base_name \o <<"-">> \o image_type \o <<".">> \o image_format_ext

\* a plausible slip: the file is opened by its name alone, in the working
\* directory
path_in_working_directory(dir, filename) == [dir |-> <<>>, name |-> filename]

\* output_dir / filename
PathJoin(dir, filename) == [dir |-> dir, name |-> filename]

\* a plausible slip: a file that exists is left as it is
write_file_keeping_existing(fs0, path, bytes) ==
    [q \in (DOMAIN fs0) \cup {path} |-> IF q \in DOMAIN fs0 THEN fs0[q] ELSE bytes]

\* open(path, 'wb') followed by f.write(bytes), on the file system fs
WriteFile(fs0, path, bytes) ==
    [q \in (DOMAIN fs0) \cup {path} |-> IF q = path THEN bytes ELSE fs0[q]]

\* the payload _save_base64_image decodes: the text after a data: prefix,
\* base64-decoded; or the exception raised on the way
DecodeImage(image_data) ==
    LET payload == IF StartsWith(image_data, DataPrefix)
                   THEN SplitTail(image_data, ",")
                   ELSE [ok |-> TRUE, val |-> image_data]
    IN  IF ~payload.ok THEN payload ELSE b64decode(payload.val)

\* _save_base64_image: the state afterwards and the value returned
save_base64_image(st, image_data, output_dir, base_name, image_type, io) ==
    LET decoded == DecodeImage(image_data)
        fmt == detect_image_format(decoded.val)
        filename == ImageFilename(base_name, image_type, fmt.val)
        path == PathJoin(output_dir, filename)
    IN  IF ~decoded.ok THEN [st |-> st, ret |-> None]
        ELSE IF ~Truthy(fmt) THEN [st |-> st, ret |-> None]
        ELSE IF io = "open_fails" THEN [st |-> st, ret |-> None]
        ELSE IF io = "write_fails"
        THEN [st |-> [st EXCEPT !.fs = WriteFile(st.fs, path, <<>>)], ret |-> None]
        ELSE [st |-> [fs |-> WriteFile(st.fs, path, decoded.val),
                      written |-> Append(st.written,
                                         [path |-> path, bytes |-> decoded.val]),
                      extracted_images |->
                          Append(st.extracted_images,
                                 [type |-> image_type, filename |-> filename,
                                  size |-> Len(decoded.val)])],
              ret |-> JStr(filename)]

\* a plausible slip: the list is not emptied at the start of a call
NotCleared(extracted) == extracted

\* self.extracted_images.clear()
ClearedImages(extracted) == <<>>

\* one iteration of the loop of extract_images, for the n-th image field: the
\* state afterwards and the filename saved, None when nothing was saved
ExtractField(st, data, path, io, n) ==
    LET f == image_fields[n]
        image_data == data[f.field]
    IN  IF f.field \in DOMAIN data /\ IsStr(image_data) /\ Truthy(image_data)
        THEN save_base64_image(st, image_data.val, path.parent, path.stem, f.type,
                               io[f.field])
        ELSE [st |-> st, ret |-> None]

\* saved_images after an iteration that returned ret
SavedAfter(saved, ret) == IF Truthy(ret) THEN Append(saved, ret.val) ELSE saved

\* the loop of extract_images over the first n image fields: the state and
\* saved_images after them
RECURSIVE ExtractLoop(_, _, _, _, _)
ExtractLoop(st0, data, path, io, n) ==
    IF n = 0 THEN [st |-> st0, saved |-> <<>>]
    ELSE LET before == ExtractLoop(st0, data, path, io, n - 1)
             r == ExtractField(before.st, data, path, io, n)
         IN  [st |-> r.st, saved |-> SavedAfter(before.saved, r.ret)]

\* a plausible slip: the first field that fails ends the scan
RECURSIVE ExtractLoopStopping(_, _, _, _, _)
ExtractLoopStopping(st0, data, path, io, n) ==
    IF n = 0 THEN [st |-> st0, saved |-> <<>>, stopped |-> FALSE]
    ELSE LET before == ExtractLoopStopping(st0, data, path, io, n - 1)
             f == image_fields[n]
             image_data == data[f.field]
             r == save_base64_image(before.st, image_data.val, path.parent,
                                    path.stem, f.type, io[f.field])
         IN  IF before.stopped THEN before
             ELSE IF f.field \in DOMAIN data /\ IsStr(image_data) /\ Truthy(image_data)
             THEN IF Truthy(r.ret)
                  THEN [st |-> r.st, saved |-> Append(before.saved, r.ret.val),
                        stopped |-> FALSE]
                  ELSE [st |-> r.st, saved |-> before.saved, stopped |-> TRUE]
             ELSE before

extract_images_stopping(st, data, path, io) ==
    LET r == ExtractLoopStopping(
                 [fs |-> st.fs, written |-> <<>>,
                  extracted_images |-> ClearedImages(st.extracted_images)],
                 data, path, io, Len(image_fields))
    IN  [st |-> r.st, saved |-> r.saved]

\* extract_images: the state afterwards and the list returned
extract_images(st, data, path, io) ==
    ExtractLoop([fs |-> st.fs, written |-> <<>>,
                 extracted_images |-> ClearedImages(st.extracted_images)],
                data, path, io, Len(image_fields))

(***************************************************************************)
(* nfo_generator.py.  An ET.Element is a record: its tag, its attributes   *)
(* in insertion order, its text (a Python value; None when never set) and  *)
(* its children.                                                           *)
(***************************************************************************)
Element(tag, attrs, text, children) ==
    [tag |-> tag, attrs |-> attrs, text |-> text, children |-> children]

\* _add_text_element: the element appended to the parent
add_text_element(tag, text) ==
    Element(tag, <<>>, IF Truthy(text) THEN text ELSE JStr(<<>>), <<>>)

\* the elements appended under a condition
When(cond, elems) == IF cond THEN elems ELSE <<>>

\* the uniqueid element of _generate_movie_nfo
UniqueIdElements(nfo) ==
    LET u == Get(nfo, "uniqueid", None)
    IN  When(Truthy(u) /\ IsDict(u),
             <<Element(<<"u", "n", "i", "q", "u", "e", "i", "d">>,
                       <<[name |-> <<"t", "y", "p", "e">>,
                          value |-> Get(u.val, "type", JStr(<<"s", "t", "a", "s", "h">>))]>>
                       \o When(Truthy(Get(u.val, "default", None)),
                               <<[name |-> <<"d", "e", "f", "a", "u", "l", "t">>, value |-> JStr(<<"t", "r", "u", "e">>)]>>),
                       Get(u.val, "value", JStr(<<>>)),
                       <<>>)>>)

\* one element per distinct non-empty genre: a repeated value is dropped
genre_elements_distinct(nfo, tag) ==
    LET genres == Get(nfo, "genres", JList(<<>>)).val
    IN  Concat([i \in 1..Len(genres) |->
                   When(Truthy(genres[i]) /\ \A j \in 1..(i - 1) : genres[j] # genres[i],
                        <<add_text_element(tag, genres[i])>>)])

\* one element per non-empty genre, under the given tag
GenreElements(nfo, tag) ==
    LET genres == Get(nfo, "genres", JList(<<>>)).val
    IN  Concat([i \in 1..Len(genres) |->
                   When(Truthy(genres[i]), <<add_text_element(tag, genres[i])>>)])

\* the actor element of one entry of nfo_data['actors']
ActorElement(actor_data) ==
    LET name == Get(actor_data.val, "name", JStr(<<>>))
        role == Get(actor_data.val, "role", JStr(<<>>))
        order == Get(actor_data.val, "order", None)
    IN  Element(<<"a", "c", "t", "o", "r">>, <<>>, None,
                When(Truthy(name), <<add_text_element(<<"n", "a", "m", "e">>, name)>>)
                \o When(Truthy(role), <<add_text_element(<<"r", "o", "l", "e">>, role)>>)
                \o When(order.jt # "none",
                        <<add_text_element(<<"o", "r", "d", "e", "r">>, JStr(PyStr(order)))>>))

ActorElements(nfo) ==
    LET actors == Get(nfo, "actors", JList(<<>>)).val
    IN  Concat([i \in 1..Len(actors) |->
                   When(IsDict(actors[i]), <<ActorElement(actors[i])>>)])

\* the four basic elements with the title element left out
movie_basics_without_title(nfo) ==
    << add_text_element(<<"o", "r", "i", "g", "i", "n", "a", "l", "t", "i", "t", "l", "e">>, Get(nfo, "originaltitle", JStr(<<>>))),
       add_text_element(<<"p", "l", "o", "t">>, Get(nfo, "plot", JStr(<<>>))),
       add_text_element(<<"u", "s", "e", "r", "r", "a", "t", "i", "n", "g">>,
                        JStr(PyStr(Get(nfo, "userrating", JInt(0))))) >>

\* the basic metadata and rating elements of _generate_movie_nfo
MovieBasics(nfo) ==
    << add_text_element(<<"t", "i", "t", "l", "e">>, Get(nfo, "title", JStr(<<>>))),
       add_text_element(<<"o", "r", "i", "g", "i", "n", "a", "l", "t", "i", "t", "l", "e">>, Get(nfo, "originaltitle", JStr(<<>>))),
       add_text_element(<<"p", "l", "o", "t">>, Get(nfo, "plot", JStr(<<>>))),
       add_text_element(<<"u", "s", "e", "r", "r", "a", "t", "i", "n", "g">>,
                        JStr(PyStr(Get(nfo, "userrating", JInt(0))))) >>

\* the date, studio and runtime elements of _generate_movie_nfo
MovieOptionals(nfo) ==
    LET premiered == Get(nfo, "premiered", None)
        year == Get(nfo, "year", None)
        studio == Get(nfo, "studio", None)
        runtime == Get(nfo, "runtime", None)
    IN  When(Truthy(premiered), <<add_text_element(<<"p", "r", "e", "m", "i", "e", "r", "e", "d">>, premiered)>>)
        \o When(Truthy(year), <<add_text_element(<<"y", "e", "a", "r">>, JStr(PyStr(year)))>>)
        \o When(Truthy(studio), <<add_text_element(<<"s", "t", "u", "d", "i", "o">>, studio)>>)
        \o When(Truthy(runtime), <<add_text_element(<<"r", "u", "n", "t", "i", "m", "e">>, JStr(PyStr(runtime)))>>)

\* the root element _generate_movie_nfo builds
MovieElement(nfo) ==
    Element(<<"m", "o", "v", "i", "e">>, <<>>, None,
            MovieBasics(nfo)
            \o MovieOptionals(nfo)
            \o UniqueIdElements(nfo)
            \o GenreElements(nfo, <<"g", "e", "n", "r", "e">>)
            \o GenreElements(nfo, <<"t", "a", "g">>)
            \o ActorElements(nfo))

\* the tag of a key of nfo_data['details'] or nfo_data['social']
KeyTag(k) ==
    CASE k = "gender" -> <<"g", "e", "n", "d", "e", "r">>
      [] k = "ethnicity" -> <<"e", "t", "h", "n", "i", "c", "i", "t", "y">>
      [] k = "country" -> <<"c", "o", "u", "n", "t", "r", "y">>
      [] k = "eye_color" -> <<"e", "y", "e", "_", "c", "o", "l", "o", "r">>
      [] k = "height" -> <<"h", "e", "i", "g", "h", "t">>
      [] k = "measurements" -> <<"m", "e", "a", "s", "u", "r", "e", "m", "e", "n", "t", "s">>
      [] k = "tattoos" -> <<"t", "a", "t", "t", "o", "o", "s">>
      [] k = "piercings" -> <<"p", "i", "e", "r", "c", "i", "n", "g", "s">>
      [] k = "aliases" -> <<"a", "l", "i", "a", "s", "e", "s">>
      [] k = "url" -> <<"u", "r", "l">>
      [] k = "twitter" -> <<"t", "w", "i", "t", "t", "e", "r">>
      [] k = "instagram" -> <<"i", "n", "s", "t", "a", "g", "r", "a", "m">>

\* the elements of one details item: one per non-empty entry of a list, one
\* for any other non-empty value
DetailElements(key, value) ==
    IF ~Truthy(value) THEN <<>>
    ELSE IF IsList(value)
    THEN Concat([i \in 1..Len(value.val) |->
                    When(Truthy(value.val[i]),
                         <<add_text_element(KeyTag(key), JStr(PyStr(value.val[i])))>>)])
    ELSE <<add_text_element(KeyTag(key), JStr(PyStr(value)))>>

SocialElements(key, value) ==
    When(Truthy(value), <<add_text_element(KeyTag(key), JStr(PyStr(value)))>>)

\* the root element _generate_actor_nfo builds
PerformerElement(nfo) ==
    LET biography == Get(nfo, "biography", JStr(<<>>))
        birthdate == Get(nfo, "birthdate", None)
        details == Get(nfo, "details", JDict(EmptyDict))
        social == Get(nfo, "social", JDict(EmptyDict))
    IN  Element(<<"a", "c", "t", "o", "r">>, <<>>, None,
            << add_text_element(<<"n", "a", "m", "e">>, Get(nfo, "name", JStr(<<>>))) >>
            \o When(Truthy(biography), <<add_text_element(<<"b", "i", "o", "g", "r", "a", "p", "h", "y">>, biography)>>)
            \o When(Truthy(birthdate), <<add_text_element(<<"b", "i", "r", "t", "h", "d", "a", "t", "e">>, birthdate)>>)
            \o When(IsDict(details),
                    Concat([i \in 1..Len(DetailsKeys) |->
                               IF DetailsKeys[i] \in DOMAIN details.val
                               THEN DetailElements(DetailsKeys[i],
                                                   details.val[DetailsKeys[i]])
                               ELSE <<>>]))
            \o When(IsDict(social),
                    Concat([i \in 1..Len(SocialKeys) |->
                               IF SocialKeys[i] \in DOMAIN social.val
                               THEN SocialElements(SocialKeys[i],
                                                   social.val[SocialKeys[i]])
                               ELSE <<>>])))

\* ElementTree._escape_cdata
escape_cdata(text) ==
    Concat([i \in 1..Len(text) |->
               CASE text[i] = "&" -> <<"&", "a", "m", "p", ";">>
                 [] text[i] = "<" -> <<"&", "l", "t", ";">>
                 [] text[i] = ">" -> <<"&", "g", "t", ";">>
                 [] OTHER -> <<text[i]>>])

\* ElementTree._escape_attrib
escape_attrib(text) ==
    Concat([i \in 1..Len(text) |->
               CASE text[i] = "&" -> <<"&", "a", "m", "p", ";">>
                 [] text[i] = "<" -> <<"&", "l", "t", ";">>
                 [] text[i] = ">" -> <<"&", "g", "t", ";">>
                 [] text[i] = "\"" -> <<"&", "q", "u", "o", "t", ";">>
                 [] text[i] = "\r" -> <<"&", "#", "1", "3", ";">>
                 [] text[i] = "\n" -> <<"&", "#", "1", "0", ";">>
                 [] text[i] = "\t" -> <<"&", "#", "0", "9", ";">>
                 [] OTHER -> <<text[i]>>])

\* ET.tostring raises TypeError for a text or an attribute value that is
\* not a string
RECURSIVE Unserializable(_)
Unserializable(e) ==
    \/ Truthy(e.text) /\ ~IsStr(e.text)
    \/ \E i \in 1..Len(e.attrs) : ~IsStr(e.attrs[i].value)
    \/ \E i \in 1..Len(e.children) : Unserializable(e.children[i])

\* ET.tostring(root, encoding='unicode'): an element with neither text nor
\* children is written in the short form
RECURSIVE tostring(_)
tostring(e) ==
    <<"<">> \o e.tag
    \o Concat([i \in 1..Len(e.attrs) |->
                  <<" ">> \o e.attrs[i].name \o <<"=", "\"">>
                  \o escape_attrib(e.attrs[i].value.val) \o <<"\"">>])
    \o IF Truthy(e.text) \/ e.children # <<>>
       THEN <<">">>
            \o (IF Truthy(e.text) THEN escape_cdata(e.text.val) ELSE <<>>)
            \o Concat([i \in 1..Len(e.children) |-> tostring(e.children[i])])
            \o <<"<", "/">> \o e.tag \o <<">">>
       ELSE <<" ", "/", ">">>

\* a character the XML parser rejects: of the characters modelled, form feed
IsXmlChar(c) == c # "\f"

\* minidom.parseString raises ExpatError on a character that is not an XML
\* character
ExpatError == [ok |-> FALSE, exc |-> "ExpatError"]

RECURSIVE NotWellFormed(_)
NotWellFormed(e) ==
    \/ Truthy(e.text) /\ \E i \in 1..Len(e.text.val) : ~IsXmlChar(e.text.val[i])
    \/ \E i \in 1..Len(e.attrs) :
          \E j \in 1..Len(e.attrs[i].value.val) : ~IsXmlChar(e.attrs[i].value.val[j])
    \/ \E i \in 1..Len(e.children) : NotWellFormed(e.children[i])

\* the parser's end-of-line handling: \r\n and a lone \r become \n
NormalizeEol(s) ==
    Concat([i \in 1..Len(s) |->
               IF s[i] = "\r" THEN <<"\n">>
               ELSE IF s[i] = "\n" /\ i > 1 /\ s[i - 1] = "\r" THEN <<>>
               ELSE <<s[i]>>])

\* minidom._write_data
write_data(text) ==
    Concat([i \in 1..Len(text) |->
               CASE text[i] = "&" -> <<"&", "a", "m", "p", ";">>
                 [] text[i] = "<" -> <<"&", "l", "t", ";">>
                 [] text[i] = "\"" -> <<"&", "q", "u", "o", "t", ";">>
                 [] text[i] = ">" -> <<"&", "g", "t", ";">>
                 [] OTHER -> <<text[i]>>])

Indent == <<" ", " ">>

\* minidom Element.writexml(writer, indent, '  ', '\n') on the parsed tree
RECURSIVE writexml(_, _)
writexml(e, indent) ==
    indent \o <<"<">> \o e.tag
    \o Concat([i \in 1..Len(e.attrs) |->
                  <<" ">> \o e.attrs[i].name \o <<"=", "\"">>
                  \o write_data(e.attrs[i].value.val) \o <<"\"">>])
    \o IF Truthy(e.text)
       THEN <<">">> \o write_data(NormalizeEol(e.text.val))
            \o <<"<", "/">> \o e.tag \o <<">", "\n">>
       ELSE IF e.children # <<>>
       THEN <<">", "\n">>
            \o Concat([i \in 1..Len(e.children) |->
                          writexml(e.children[i], indent \o Indent)])
            \o indent \o <<"<", "/">> \o e.tag \o <<">", "\n">>
       ELSE <<"/", ">", "\n">>

\* str.split('\n')
SplitLines(s) ==
    LET nl == SelectSeq([i \in 1..Len(s) |-> i], LAMBDA i : s[i] = "\n")
    IN  [k \in 1..(Len(nl) + 1) |->
            SubSeq(s, IF k = 1 THEN 1 ELSE nl[k - 1] + 1,
                      IF k <= Len(nl) THEN nl[k] - 1 ELSE Len(s))]

\* line.strip() is empty
IsBlank(line) == \A i \in 1..Len(line) : line[i] \in {" ", "\t", "\r", "\n", "\f"}

\* the lines kept by [line for line in ... if line.strip()]
NonBlankLines(lines) == SelectSeq(lines, LAMBDA l : ~IsBlank(l))

xml_declaration(encoding) ==
    <<"<", "?", "x", "m", "l", " ", "v", "e", "r", "s", "i", "o", "n", "=", "\"", "1", ".", "0", "\"", " ", "e", "n", "c", "o", "d", "i", "n", "g", "=", "\"">> \o encoding \o <<"\"", " ", "s", "t", "a", "n", "d", "a", "l", "o", "n", "e", "=", "\"", "y", "e", "s", "\"", " ", "?", ">">>

\* _format_xml: the document text, or the exception raised
format_xml(root, pretty_print, encoding) ==
    IF Unserializable(root) THEN TypeError
    ELSE IF pretty_print
    THEN IF NotWellFormed(root) THEN ExpatError
         ELSE [ok |-> TRUE,
               val |-> xml_declaration(encoding) \o <<"\n">>
                       \o JoinWith(NonBlankLines(SplitLines(writexml(root, <<>>))),
                                   <<"\n">>)]
    ELSE [ok |-> TRUE, val |-> xml_declaration(encoding) \o tostring(root)]

generate_movie_nfo(nfo, pretty_print, encoding) ==
    format_xml(MovieElement(nfo), pretty_print, encoding)

generate_actor_nfo(nfo, pretty_print, encoding) ==
    format_xml(PerformerElement(nfo), pretty_print, encoding)

\* NfoGenerator.generate
generate(nfo, kind, pretty_print, encoding) ==
    IF kind \in {"scene", "gallery"} THEN generate_movie_nfo(nfo, pretty_print, encoding)
    ELSE IF kind = "performer" THEN generate_actor_nfo(nfo, pretty_print, encoding)
    ELSE ValueError

(***************************************************************************)
(* Specification SpecDetect: detect_type applied to every record over the  *)
(* keys the rules read, with 'file' holding a mapping or something else.   *)
(***************************************************************************)
DetectKeys == {"duration", "performers", "gender", "birthdate", "ethnicity",
               "measurements", "folder", "scenes", "title", "studio", "tags"}

FileValues == {JDict(EmptyDict), JDict([duration |-> JInt(120)]),
               JStr(<<"a">>), None, JList(<<>>)}

DetectRecords ==
    LET plain(S) == [k \in S |-> JStr(<<"x">>)]
    IN  { plain(S) : S \in SUBSET DetectKeys }
        \cup { Put(plain(S), "file", f) : S \in SUBSET DetectKeys, f \in FileValues }

\* the parts of the state a specification does not use
DateIdle == date_str = <<>> /\ date_out = <<>>
FmtIdle == image_bytes = <<>> /\ image_format = None
ImgIdle ==
    /\ extracted_images = <<>>
    /\ saved_images = <<>>
    /\ written = <<>>
    /\ fs = [p \in {} |-> <<>>]
    /\ calls = 0
    /\ output_path = None
    /\ faults = [f \in {} |-> "ok"]
    /\ frames = <<>>
MainIdle == args = None /\ nfo_xml = None /\ exit_code = -1
HeapIdle == heap = <<>> /\ nfo_ref = 0

InitDetect ==
    /\ HeapIdle
    /\ pc = "start"
    /\ stash_data \in DetectRecords
    /\ data_type = "auto"
    /\ nfo_data = None
    /\ pads_year = TRUE
    /\ requests = <<>>
    /\ DateIdle /\ FmtIdle /\ ImgIdle /\ MainIdle

DetectType ==
    /\ pc = "start"
    /\ data_type = "auto"
    /\ data_type' = detect_type(stash_data)
    /\ pc' = "detected"
    /\ UNCHANGED <<stash_data, nfo_data, dateVars, pads_year, requests, heapVars, fmtVars, imgVars, mainVars>>

NextDetect == DetectType

SpecDetect == InitDetect /\ [][NextDetect]_vars

\* C1: detect_type returns the result of the first matching rule in the order
\* mapping-valued 'file' -> scene; gender/birthdate/ethnicity/measurements ->
\* performer; (folder or scenes) and performers -> gallery;
\* title/studio/tags/performers -> scene; otherwise unknown.
C1_Rule1(d) == "file" \in DOMAIN d /\ d["file"].jt = "dict"
C1_Rule2(d) == DOMAIN d \cap {"gender", "birthdate", "ethnicity", "measurements"} # {}
C1_Rule3(d) == DOMAIN d \cap {"folder", "scenes"} # {} /\ "performers" \in DOMAIN d
C1_Rule4(d) == DOMAIN d \cap {"title", "studio", "tags", "performers"} # {}
C1_FirstMatch ==
    pc = "detected" =>
        data_type = CASE C1_Rule1(stash_data) -> "scene"
                      [] ~C1_Rule1(stash_data) /\ C1_Rule2(stash_data) -> "performer"
                      [] ~C1_Rule1(stash_data) /\ ~C1_Rule2(stash_data)
                           /\ C1_Rule3(stash_data) -> "gallery"
                      [] ~C1_Rule1(stash_data) /\ ~C1_Rule2(stash_data)
                           /\ ~C1_Rule3(stash_data) /\ C1_Rule4(stash_data) -> "scene"
                      [] OTHER -> "unknown"

\* a record satisfying the performer rule and the gallery rule has been
\* classified (as performer, by the earlier rule)
C1_Witness ==
    /\ pc = "detected"
    /\ C1_Rule2(stash_data) /\ C1_Rule3(stash_data) /\ ~C1_Rule1(stash_data)
    /\ data_type = "performer"


(***************************************************************************)
(* Specification SpecDate: _convert_date applied to date strings built     *)
(* from three fields, a separator and a suffix, and to some strings of     *)
(* another shape.                                                          *)
(***************************************************************************)
DateFields == {
    <<"2", "0", "2", "3">>, <<"2", "0", "2", "4">>, <<"0", "9", "9", "9">>,
    <<"0", "0", "0", "0">>, <<"1", "2">>, <<"2", "5">>, <<"0", "2">>,
    <<"2", "9">>, <<"3", "1">>, <<"0", "5">>, <<"5">>, <<"1", "3">>,
    <<" ", "5">>, <<"x">>, <<>> }

DateSeps == {"-", "/"}

DateSuffixes == { <<>>, <<"T", "1", "0", ":", "3", "0", ":", "0", "0">>,
                  <<"T">>, <<" ">> }

OtherDateStrings == {
    <<>>, <<"T">>, <<"n", "o", "t", "-", "a", "-", "d", "a", "t", "e">>,
    <<"n", "o", "T", "2", "0", "2", "3", "-", "1", "2", "-", "2", "5">>,
    <<"2", "0", "2", "3", "-", "1", "2", "/", "2", "5">>,
    <<"2", "0", "2", "3", "-", "1", "2", "-", "2", "5", "-", "0", "1">>,
    <<"2", "0", "2", "3", "1", "2", "2", "5">> }

DateStrings ==
    { a \o <<p>> \o b \o <<p>> \o c \o x :
        a \in DateFields, b \in DateFields, c \in DateFields,
        p \in DateSeps, x \in DateSuffixes }
    \cup OtherDateStrings

InitDate ==
    /\ HeapIdle
    /\ pc = "start"
    /\ date_str \in DateStrings
    /\ date_out = <<>>
    /\ pads_year \in BOOLEAN
    /\ requests = <<>>
    /\ stash_data = EmptyDict
    /\ data_type = "auto"
    /\ nfo_data = None
    /\ FmtIdle /\ ImgIdle /\ MainIdle

ConvertDate ==
    /\ pc = "start"
    /\ date_out' = convert_date(date_str, pads_year)
    /\ pc' = "date_done"
    /\ UNCHANGED <<recVars, date_str, pads_year, requests, heapVars, fmtVars, imgVars, mainVars>>

NextDate == ConvertDate

SpecDate == InitDate /\ [][NextDate]_vars

\* the string is laid out YYYY-MM-DD (four, two and two digits) and names a
\* calendar date
IsIsoDate(s) ==
    /\ Len(s) = 10
    /\ s[5] = "-" /\ s[8] = "-"
    /\ \A i \in {1, 2, 3, 4, 6, 7, 9, 10} : s[i] \in Digits
    /\ LET y == StrToInt(SubSeq(s, 1, 4))
           m == StrToInt(SubSeq(s, 6, 7))
           d == StrToInt(SubSeq(s, 9, 10))
       IN  y >= 1 /\ m \in 1..12 /\ d >= 1 /\ d <= DaysInMonth(y, m)

\* C4: for every date string already laid out YYYY-MM-DD (a valid calendar
\* date), _convert_date returns the string itself.
C4_IsoIdempotent ==
    (pc = "date_done" /\ IsIsoDate(date_str)) => date_out = date_str

\* the layouts _convert_date accepts, as the date-only portion is tried
C5_Layouts == {
    <<"%", "Y", "-", "%", "m", "-", "%", "d">>,
    <<"%", "d", "/", "%", "m", "/", "%", "Y">>,
    <<"%", "m", "/", "%", "d", "/", "%", "Y">>,
    <<"%", "d", "-", "%", "m", "-", "%", "Y">>,
    <<"%", "m", "-", "%", "d", "-", "%", "Y">> }

C5_Unparseable(s) ==
    \A fmt \in C5_Layouts : ~strptime(SplitHead(s, "T"), fmt).ok

\* C5: a non-empty date string whose date-only portion (the text before the
\* first 'T') matches none of the accepted layouts is returned unchanged,
\* text after the 'T' included; the empty string yields the empty string.
C5_UnparseableUnchanged ==
    pc = "date_done" =>
        /\ (date_str # <<>> /\ C5_Unparseable(date_str)) => date_out = date_str
        /\ date_str = <<>> => date_out = <<>>

\* an unparseable string with text after a 'T' has come back whole
C5_Witness ==
    /\ pc = "date_done"
    /\ C5_Unparseable(date_str)
    /\ Find(date_str, "T") > 0 /\ Find(date_str, "T") < Len(date_str)
    /\ date_out = date_str


(***************************************************************************)
(* The convert call, and three specifications that apply it: to scene      *)
(* records over rating values (SpecRating), to scene and gallery records   *)
(* over date values (SpecSceneDate), and to scene and gallery records over *)
(* performers lists (SpecActors).                                          *)
(***************************************************************************)
Convert ==
    /\ pc = "start"
    /\ nfo_data' = convert(stash_data, data_type, pads_year)
    /\ pc' = "converted"
    /\ UNCHANGED <<stash_data, data_type, dateVars, pads_year, requests, heapVars, fmtVars, imgVars, mainVars>>

NextConvert == Convert

\* largest rating magnitude tried
MaxRating == 5
\* longest rating string tried
MaxRatingStrLen == 2

RatingChars == {"4", "0", "-", "x"}

RECURSIVE StringsUpTo(_, _)
StringsUpTo(chars, n) ==
    IF n = 0 THEN {<<>>}
    ELSE LET shorter == StringsUpTo(chars, n - 1)
         IN  shorter \cup {Append(s, c) : s \in shorter, c \in chars}

RatingValues ==
    { JInt(n) : n \in (0 - MaxRating)..MaxRating }
    \cup { JNum(n, DBL_MAX_EXP, FALSE) : n \in 1..MaxRating }
    \cup { JStr(s) : s \in StringsUpTo(RatingChars, MaxRatingStrLen) }
    \cup { None, JBool(TRUE), JBool(FALSE), JList(<<>>), JList(<<JInt(4)>>),
           JDict(EmptyDict) }

TitleA == JStr(<<"A">>)

RatingRecords ==
    LET others == { [title |-> TitleA],
                    [title |-> TitleA, file |-> JDict([duration |-> JInt(125)])],
                    [details |-> JStr(<<"p">>), url |-> JStr(<<"u">>)] }
    IN  others \cup { Put(o, "rating", r) : o \in others, r \in RatingValues }

InitRating ==
    /\ HeapIdle
    /\ pc = "start"
    /\ stash_data \in RatingRecords
    /\ data_type = "scene"
    /\ nfo_data = None
    /\ DateIdle /\ FmtIdle /\ ImgIdle /\ MainIdle
    /\ pads_year \in BOOLEAN
    /\ requests = <<>>

SpecRating == InitRating /\ [][NextConvert]_vars

\* the rating is a number or a numeric string
C3_Numeric(r) == r.jt = "num" \/ (r.jt = "str" /\ IsNumericStr(r.val))

\* twice the rating, as a float
C3_Twice(r) ==
    IF r.jt = "num" THEN JNum(2 * r.val, r.scale, TRUE)
    ELSE JNum(2 * StrNumVal(r.val), 0, TRUE)

\* Python's == on two numbers (an int equals the float of the same value)
NumEq(a, b) ==
    /\ a.jt = "num" /\ b.jt = "num"
    /\ a.val = b.val
    /\ (a.val = 0 \/ a.scale = b.scale)

\* C3: for a scene whose rating is a number or a numeric string, userrating
\* is twice the rating, unclamped; for a rating that is absent, null or not
\* numeric, userrating is 0; no error is raised in either case.
C3_RatingDoubled ==
    (pc = "converted" /\ data_type = "scene") =>
        LET r == Get(stash_data, "rating", None)
        IN  /\ nfo_data.ok
            /\ r.jt # "bool" =>
                 NumEq(nfo_data.val["userrating"],
                       IF C3_Numeric(r) THEN C3_Twice(r) ELSE JInt(0))

\* the same, for the ratings float() can represent
C3_RatingDoubledInRange ==
    (pc = "converted" /\ data_type = "scene") =>
        LET r == Get(stash_data, "rating", None)
        IN  (r.jt = "num" => r.scale < DBL_MAX_EXP) =>
            /\ nfo_data.ok
            /\ r.jt # "bool" =>
                 NumEq(nfo_data.val["userrating"],
                       IF C3_Numeric(r) THEN C3_Twice(r) ELSE JInt(0))

SceneDateValues ==
    { JStr(s) : s \in DateStrings }
    \cup { None, JInt(0), JList(<<>>) }

SceneDateRecords ==
    { [title |-> TitleA] }
    \cup { [title |-> TitleA, date |-> d] : d \in SceneDateValues }

InitSceneDate ==
    /\ HeapIdle
    /\ pc = "start"
    /\ stash_data \in SceneDateRecords
    /\ data_type \in {"scene", "gallery"}
    /\ nfo_data = None
    /\ DateIdle /\ FmtIdle /\ ImgIdle /\ MainIdle
    /\ pads_year \in BOOLEAN
    /\ requests = <<>>

SpecSceneDate == InitSceneDate /\ [][NextConvert]_vars

\* the date string parses under the strict layout YYYY-MM-DD as strptime
\* reads it: four digits, a month and a day, nothing after
C6_StrictParse(s) == strptime(s, <<"%", "Y", "-", "%", "m", "-", "%", "d">>).ok

\* C6: for a scene or gallery with a truthy date string, premiered is
\* _convert_date(date) and year is set exactly when the original string
\* parses under the strict layout YYYY-MM-DD; a date normalised through
\* another layout, or carrying a 'T' suffix, gets premiered and no year.
C6_PremieredWithoutYear ==
    (/\ pc = "converted"
     /\ data_type \in {"scene", "gallery"}
     /\ "date" \in DOMAIN stash_data
     /\ stash_data["date"].jt = "str"
     /\ stash_data["date"].val # <<>>) =>
        LET s == stash_data["date"].val
        IN  /\ nfo_data.ok
            /\ "premiered" \in DOMAIN nfo_data.val
            /\ nfo_data.val["premiered"] = JStr(convert_date(s, pads_year))
            /\ "year" \in DOMAIN nfo_data.val <=> C6_StrictParse(s)
            /\ (~C6_StrictParse(s) /\ ~C5_Unparseable(s)) =>
                   /\ nfo_data.val["premiered"].val # s
                   /\ "year" \notin DOMAIN nfo_data.val

\* a date with a time suffix has been converted: premiered holds the
\* normalised date and there is no year
C6_Witness ==
    /\ pc = "converted"
    /\ data_type = "gallery"
    /\ "date" \in DOMAIN stash_data
    /\ stash_data["date"] = JStr(<<"2", "0", "2", "3", "-", "1", "2", "-", "2", "5", "T", "1", "0", ":", "3", "0", ":", "0", "0">>)
    /\ nfo_data.ok
    /\ nfo_data.val["premiered"] = JStr(<<"2", "0", "2", "3", "-", "1", "2", "-", "2", "5">>)
    /\ "year" \notin DOMAIN nfo_data.val

\* longest performers list tried
MaxPerformers == 3

PerformerEntries == {
    JStr(<<"B", "o", "b">>), JStr(<<"A", "l">>),
    JDict([name |-> JStr(<<"B", "o", "b">>), role |-> JStr(<<"L">>)]),
    JDict(EmptyDict), JInt(7), None }

RECURSIVE ListsUpTo(_, _)
ListsUpTo(elems, n) ==
    IF n = 0 THEN {<<>>}
    ELSE LET shorter == ListsUpTo(elems, n - 1)
         IN  shorter \cup {Append(s, e) : s \in shorter, e \in elems}

ActorRecords ==
    { [title |-> TitleA, performers |-> JList(l)] :
        l \in ListsUpTo(PerformerEntries, MaxPerformers) }
    \cup { [title |-> TitleA], [title |-> TitleA, performers |-> JStr(<<"B">>)] }

InitActors ==
    /\ HeapIdle
    /\ pc = "start"
    /\ stash_data \in ActorRecords
    /\ data_type \in {"scene", "gallery"}
    /\ nfo_data = None
    /\ DateIdle /\ FmtIdle /\ ImgIdle /\ MainIdle
    /\ pads_year = TRUE
    /\ requests = <<>>

SpecActors == InitActors /\ [][NextConvert]_vars

\* the name the claim gives the actor made from a performers entry
C7_NameOf(e) == IF e.jt = "str" THEN e ELSE Get(e.val, "name", JStr(<<>>))

\* C7: the actor list holds exactly one entry per performers element that is
\* a string or a mapping, in input order, each with order = the element's
\* 0-based index in the input list; other elements are skipped without
\* renumbering, and duplicate names are all kept.
C7_ActorsPositional ==
    (/\ pc = "converted"
     /\ "performers" \in DOMAIN stash_data
     /\ stash_data["performers"].jt = "list") =>
        LET L == stash_data["performers"].val
            kept == {i \in 1..Len(L) : L[i].jt \in {"str", "dict"}}
            A == nfo_data.val["actors"].val
        IN  /\ nfo_data.ok
            /\ Len(A) = Cardinality(kept)
            /\ \A j \in 1..Len(A) :
                  /\ A[j].val["order"].val + 1 \in kept
                  /\ A[j].val["name"] = C7_NameOf(L[A[j].val["order"].val + 1])
            /\ \A j \in 1..Len(A), k \in 1..Len(A) :
                  j < k => A[j].val["order"].val < A[k].val["order"].val

\* a list whose first element is skipped and whose other two carry the same
\* name has been converted: orders 1 and 2, both names kept
C7_Witness ==
    /\ pc = "converted"
    /\ "performers" \in DOMAIN stash_data
    /\ stash_data["performers"] =
          JList(<<JInt(7), JStr(<<"B", "o", "b">>), JStr(<<"B", "o", "b">>)>>)
    /\ nfo_data.ok
    /\ Len(nfo_data.val["actors"].val) = 2
    /\ nfo_data.val["actors"].val[1].val["order"] = JInt(1)
    /\ nfo_data.val["actors"].val[2].val["order"] = JInt(2)


(***************************************************************************)
(* Specification SpecImageFormat: _detect_image_format applied to every    *)
(* prefix of the known headers, whole or with one byte changed, followed   *)
(* by nothing or by some more bytes.                                       *)
(***************************************************************************)
ImageHeaders == {
    SigJpeg, SigPng, SigGif87a, SigGif89a, SigBm,
    SigRiff \o <<0, 0, 0, 0>> \o SigWebp,
    SigRiff \o SigWebp,
    SigRiff \o <<0, 0, 0, 0, 0>> \o SigWebp,
    SigRiff \o <<0, 0, 0, 0, 0, 0, 0, 0>> \o SigWebp,
    <<71, 73, 70, 56, 56, 97>> }

ImageTails == { <<>>, <<0>>, SigWebp, <<255, 216, 255>> }

ImageByteStrings ==
    LET damaged(h) == { [h EXCEPT ![i] = 0] : i \in 1..Len(h) }
        heads == ImageHeaders \cup UNION { damaged(h) : h \in ImageHeaders }
    IN  { Take(h, k) \o x : h \in heads, k \in 0..12, x \in ImageTails }

InitImageFormat ==
    /\ HeapIdle
    /\ pc = "start"
    /\ image_bytes \in ImageByteStrings
    /\ image_format = None
    /\ stash_data = EmptyDict
    /\ data_type = "auto"
    /\ nfo_data = None
    /\ pads_year = TRUE
    /\ requests = <<>>
    /\ DateIdle /\ ImgIdle /\ MainIdle

DetectImageFormat ==
    /\ pc = "start"
    /\ image_format' = detect_image_format(image_bytes)
    /\ pc' = "format_done"
    /\ UNCHANGED <<recVars, dateVars, pads_year, requests, heapVars, image_bytes, imgVars, mainVars>>

NextImageFormat == DetectImageFormat

SpecImageFormat == InitImageFormat /\ [][NextImageFormat]_vars

\* the format the signature table gives a byte sequence, by its leading bytes
C8_Table(b) ==
    LET has(p) == Len(b) >= Len(p) /\ \A i \in 1..Len(p) : b[i] = p[i]
        webpIn12 == \E i \in 1..9 : Len(b) >= i + 3 /\
                        <<b[i], b[i + 1], b[i + 2], b[i + 3]>> = <<87, 69, 66, 80>>
    IN  IF has(<<255, 216, 255>>) THEN "jpg"
        ELSE IF has(<<137, 80, 78, 71, 13, 10, 26, 10>>) THEN "png"
        ELSE IF has(<<71, 73, 70, 56, 55, 97>>) \/ has(<<71, 73, 70, 56, 57, 97>>)
        THEN "gif"
        ELSE IF has(<<82, 73, 70, 70>>) /\ webpIn12 THEN "webp"
        ELSE IF has(<<66, 77>>) THEN "bmp"
        ELSE "other"

C8_Ext(name) ==
    CASE name = "jpg" -> JStr(<<"j", "p", "g">>)
      [] name = "png" -> JStr(<<"p", "n", "g">>)
      [] name = "gif" -> JStr(<<"g", "i", "f">>)
      [] name = "webp" -> JStr(<<"w", "e", "b", "p">>)
      [] name = "bmp" -> JStr(<<"b", "m", "p">>)
      [] name = "other" -> JStr(<<"j", "p", "g">>)

\* C8 as claimed: each signature maps to its extension and every other byte
\* sequence maps to 'jpg'.
C8_EveryOtherIsJpg ==
    pc = "format_done" => image_format = C8_Ext(C8_Table(image_bytes))

\* C8 as the code has it: each signature maps to its extension, every other
\* non-empty byte sequence maps to 'jpg', and the empty byte sequence maps to
\* None (no format).
C8_OtherNonEmptyIsJpg ==
    pc = "format_done" =>
        image_format = IF image_bytes = <<>> THEN None
                       ELSE C8_Ext(C8_Table(image_bytes))

\* a non-empty byte sequence with no known signature was given 'jpg'
C8_Witness ==
    /\ pc = "format_done"
    /\ image_bytes # <<>>
    /\ C8_Table(image_bytes) = "other"
    /\ image_format = JStr(<<"j", "p", "g">>)


(***************************************************************************)
(* Specification SpecExtract: sequential extract_images calls on one       *)
(* converter instance and one file system, each on a record and an output  *)
(* path of its own, each meeting at most one I/O fault.                    *)
(***************************************************************************)
\* extract_images calls made in a run
MaxCalls == 2

B64Jpeg == JStr(<<"/", "9", "j", "/">>)
B64JpegLong == JStr(<<"/", "9", "j", "/", "4", "A", "=", "=">>)
B64PngUri == JStr(<<"d", "a", "t", "a", ":", "i", "m", "a", "g", "e", "/", "p", "n", "g", ";", "b", "a", "s", "e", "6", "4", ",", "i", "V", "B", "O", "R", "w", "0", "K", "G", "g", "o", "=">>)
B64Gif == JStr(<<"R", "0", "l", "G", "O", "D", "l", "h">>)
B64Unknown == JStr(<<"A", "A", "A", "A">>)
B64Bad == JStr(<<"a", "b", "c">>)
B64NoComma == JStr(<<"d", "a", "t", "a", ":", "x">>)
B64Empty == JStr(<<"!", "!", "!", "!">>)

PathA == [parent |-> <<"o", "u", "t">>, stem |-> <<"a">>,
          name |-> <<"a", ".", "n", "f", "o">>]
PathB == [parent |-> <<"o", "u", "t">>, stem |-> <<"b">>,
          name |-> <<"b", ".", "n", "f", "o">>]
PathC == [parent |-> <<"o", "u", "t", "2">>, stem |-> <<"a">>,
          name |-> <<"a", ".", "n", "f", "o">>]

ExtractCalls == {
    [data |-> [title |-> TitleA], path |-> PathA],
    [data |-> [cover |-> B64Jpeg], path |-> PathA],
    [data |-> [cover |-> B64PngUri], path |-> PathB],
    [data |-> [cover |-> B64Bad, poster |-> B64Jpeg], path |-> PathA],
    [data |-> [cover |-> B64NoComma, fanart |-> B64Gif], path |-> PathA],
    [data |-> [image |-> B64Jpeg, thumbnail |-> B64PngUri], path |-> PathB],
    [data |-> [cover |-> B64Unknown, poster |-> B64Jpeg], path |-> PathA],
    [data |-> [cover |-> JInt(5), image |-> JStr(<<>>), fanart |-> B64Jpeg],
     path |-> PathA],
    [data |-> [cover |-> B64Empty, thumbnail |-> B64Jpeg], path |-> PathA],
    [data |-> [cover |-> B64Jpeg, poster |-> B64JpegLong], path |-> PathA],
    [data |-> [image |-> B64JpegLong, thumbnail |-> B64Jpeg, fanart |-> B64Gif],
     path |-> PathB],
    [data |-> [cover |-> B64Jpeg, image |-> B64Jpeg, poster |-> B64PngUri,
               thumbnail |-> B64Bad, fanart |-> B64Jpeg], path |-> PathA] }

ImageFieldNames == {image_fields[i].field : i \in 1..Len(image_fields)}

NoFaults == [f \in ImageFieldNames |-> "ok"]

\* the field holds a payload whose file extract_images tries to open
ReachesOpen(data, f) ==
    /\ f \in DOMAIN data
    /\ IsStr(data[f]) /\ Truthy(data[f])
    /\ DecodeImage(data[f].val).ok
    /\ Truthy(detect_image_format(DecodeImage(data[f].val).val))

\* no fault, or one fault at a field whose file is opened
FaultChoices(data) ==
    {NoFaults} \cup
    { [NoFaults EXCEPT ![f] = k] :
        f \in {g \in ImageFieldNames : ReachesOpen(data, g)},
        k \in {"open_fails", "write_fails"} }

InitExtract ==
    /\ HeapIdle
    /\ pc = "idle"
    /\ stash_data = EmptyDict
    /\ data_type = "auto"
    /\ nfo_data = None
    /\ pads_year = TRUE
    /\ requests = <<>>
    /\ extracted_images = <<>>
    /\ saved_images = <<>>
    /\ written = <<>>
    /\ fs = [q \in {} |-> <<>>]
    /\ calls = 0
    /\ output_path = None
    /\ faults = NoFaults
    /\ frames = <<>>
    /\ DateIdle /\ FmtIdle /\ MainIdle

ExtractImages ==
    /\ pc = "idle"
    /\ calls < MaxCalls
    /\ \E call \in ExtractCalls :
         \E io \in FaultChoices(call.data) :
            LET r == extract_images([fs |-> fs, written |-> written,
                                     extracted_images |-> extracted_images],
                                    call.data, call.path, io)
            IN  /\ stash_data' = call.data
                /\ output_path' = call.path
                /\ faults' = io
                /\ extracted_images' = r.st.extracted_images
                /\ written' = r.st.written
                /\ fs' = r.st.fs
                /\ saved_images' = r.saved
    /\ calls' = calls + 1
    /\ UNCHANGED <<pc, data_type, nfo_data, dateVars, pads_year, requests, heapVars, fmtVars, mainVars, frames>>

NextExtract == ExtractImages

SpecExtract == InitExtract /\ [][NextExtract]_vars

\* the scan order of the claim
C9_ScanOrder == <<"cover", "image", "poster", "thumbnail", "fanart">>

C9_Role(f) ==
    IF f \in {"cover", "poster"} THEN <<"p", "o", "s", "t", "e", "r">>
    ELSE IF f \in {"image", "thumbnail"} THEN <<"t", "h", "u", "m", "b">>
    ELSE <<"f", "a", "n", "a", "r", "t">>

\* the field is a candidate (a non-empty string) whose handling fails: the
\* base64 does not decode, a 'data:' prefix has no comma, or the write fails
C9_Fails(f) ==
    /\ f \in DOMAIN stash_data
    /\ stash_data[f].jt = "str" /\ stash_data[f].val # <<>>
    /\ \/ ~DecodeImage(stash_data[f].val).ok
       \/ faults[f] # "ok"

\* the field is a candidate and its image was decoded, recognised and written
C9_Succeeds(f) ==
    /\ f \in DOMAIN stash_data
    /\ stash_data[f].jt = "str" /\ stash_data[f].val # <<>>
    /\ DecodeImage(stash_data[f].val).ok
    /\ DecodeImage(stash_data[f].val).val # <<>>
    /\ faults[f] = "ok"

C9_Filename(f) ==
    LET ext == detect_image_format(DecodeImage(stash_data[f].val).val).val
    IN  IF C9_Role(f) = <<"t", "h", "u", "m", "b">>
        THEN output_path.stem \o <<"-">> \o <<"t", "h", "u", "m", "b">> \o <<".">> \o ext
        ELSE C9_Role(f) \o <<".">> \o ext

\* the filenames of the fields among the first n of the scan that succeeded
RECURSIVE C9_Expected(_)
C9_Expected(n) ==
    IF n = 0 THEN <<>>
    ELSE IF C9_Succeeds(C9_ScanOrder[n])
    THEN Append(C9_Expected(n - 1), C9_Filename(C9_ScanOrder[n]))
    ELSE C9_Expected(n - 1)

\* C9: a field whose handling fails yields no artifact and does not end the
\* call: the list returned holds exactly the filenames of the fields that
\* succeeded, those after a failed field included, in scan order.
C9_FailureSkipsField ==
    calls > 0 =>
        /\ saved_images = C9_Expected(5)
        /\ Len(extracted_images) = Len(C9_Expected(5))
        /\ \A i \in 1..Len(extracted_images) :
              extracted_images[i].filename = C9_Expected(5)[i]

\* a call whose first candidate failed and whose later candidate was saved
C9_Witness ==
    /\ calls > 0
    /\ C9_Fails("cover")
    /\ \E f \in {"poster", "thumbnail", "fanart"} : C9_Succeeds(f)
    /\ saved_images # <<>>

\* C10: after sequential extract_images calls, the list the latest call
\* returned and extracted_images describe exactly the artifacts that call
\* saved, in the same order and with the same length.
C10_LatestCallOnly ==
    calls > 0 =>
        /\ Len(saved_images) = Len(written)
        /\ Len(extracted_images) = Len(written)
        /\ \A i \in 1..Len(written) :
              /\ saved_images[i] = written[i].path.name
              /\ extracted_images[i].filename = written[i].path.name
              /\ extracted_images[i].size = Len(written[i].bytes)

\* a second call has returned, after a first call that saved a file the
\* second did not write
C10_Witness ==
    /\ calls = 2
    /\ written # <<>>
    /\ \E q \in DOMAIN fs :
          /\ fs[q] # <<>>
          /\ \A i \in 1..Len(written) : written[i].path # q

(***************************************************************************)
(* Specification Spec: main() of stash_to_nfo.py run on an input file:     *)
(* parse, detect (when --type is auto), convert, generate, extract images  *)
(* (when --extract-images is given), write the NFO file.  An exception at  *)
(* any step ends the run with exit status 1.                               *)
(***************************************************************************)
Utf8 == <<"u", "t", "f", "-", "8">>

\* the command lines: --type, --extract-images, --pretty, the output file
MainArgs ==
    [type : {"scene", "performer", "gallery", "auto"},
     extract_images : BOOLEAN,
     pretty : BOOLEAN,
     encoding : {Utf8},
     output_path : {PathA}]

\* the records the input file may hold
MainRecords == {
    EmptyDict,
    [title |-> TitleA, file |-> JDict([duration |-> JInt(125)]), rating |-> JInt(4),
     date |-> JStr(<<"2", "0", "2", "0", "-", "0", "1", "-", "0", "2">>), tags |-> JList(<<JStr(<<"x">>), JStr(<<>>)>>),
     performers |-> JList(<<JStr(<<"P">>), JDict([name |-> JStr(<<"Q">>)])>>),
     url |-> JStr(<<"u">>), cover |-> B64Jpeg],
    [name |-> JStr(<<"N">>), gender |-> JStr(<<"F">>),
     aliases |-> JList(<<JStr(<<"a">>), JStr(<<"b">>)>>),
     birthdate |-> JStr(<<"1", "9", "9", "0", "-", "0", "5", "-", "0", "6">>), image |-> B64PngUri],
    [title |-> JStr(<<"G">>), folder |-> JStr(<<"f">>), fanart |-> B64Gif],
    [id |-> JInt(7)],
    [id |-> JInt(7), cover |-> B64Jpeg, poster |-> B64PngUri],
    [comment |-> JStr(<<"c">>), thumbnail |-> B64Bad, fanart |-> B64Jpeg],
    [title |-> JInt(5), file |-> JDict(EmptyDict)],
    [title |-> JStr(<<"a", "<", "&", "\n", " ", "\n", "b">>), file |-> JDict(EmptyDict)],
    [title |-> JStr(<<"\f">>), file |-> JDict(EmptyDict), cover |-> B64Jpeg],
    [title |-> TitleA, file |-> JDict(EmptyDict),
     rating |-> JNum(1, DBL_MAX_EXP, FALSE), cover |-> B64Jpeg],
    [title |-> TitleA, file |-> JDict(EmptyDict),
     studio |-> JDict([name |-> JStr(<<"S">>)])] }

\* output_path itself, as a path of the file system
NfoPath(path) == PathJoin(path.parent, path.name)

Init ==
    /\ HeapIdle
    /\ pc = "parse"
    /\ args \in MainArgs
    /\ stash_data = None
    /\ data_type = "auto"
    /\ nfo_data = None
    /\ nfo_xml = None
    /\ exit_code = -1
    /\ pads_year \in BOOLEAN
    /\ requests = <<>>
    /\ extracted_images = <<>>
    /\ saved_images = <<>>
    /\ written = <<>>
    /\ fs = [q \in {} |-> <<>>]
    /\ calls = 0
    /\ output_path = args.output_path
    /\ faults = NoFaults
    /\ frames = <<>>
    /\ DateIdle /\ FmtIdle

\* parser_instance.parse_file(input_path): the record, or JSONDecodeError
MainParse ==
    /\ pc = "parse"
    /\ \E parsed \in MainRecords \cup {None} :
          IF parsed = None
          THEN /\ pc' = "failed"
               /\ exit_code' = 1
               /\ UNCHANGED stash_data
          ELSE /\ pc' = "detect"
               /\ stash_data' = parsed
               /\ UNCHANGED exit_code
    /\ UNCHANGED <<data_type, nfo_data, dateVars, pads_year, requests, heapVars, fmtVars, imgVars,
                   args, nfo_xml>>

\* data_type = args.type, detected when it is "auto"
MainDetect ==
    /\ pc = "detect"
    /\ data_type' = IF args.type = "auto" THEN detect_type(stash_data) ELSE args.type
    /\ pc' = "convert"
    /\ UNCHANGED <<stash_data, nfo_data, dateVars, pads_year, requests, heapVars, fmtVars, imgVars,
                   mainVars>>

\* nfo_data = converter.convert(stash_data, data_type)
MainConvert ==
    /\ pc = "convert"
    /\ nfo_data' = convert(stash_data, data_type, pads_year)
    /\ IF nfo_data'.ok
       THEN pc' = "generate" /\ UNCHANGED exit_code
       ELSE pc' = "failed" /\ exit_code' = 1
    /\ UNCHANGED <<stash_data, data_type, dateVars, pads_year, requests, heapVars, fmtVars, imgVars,
                   args, nfo_xml>>

\* nfo_xml = generator.generate(nfo_data, data_type)
MainGenerate ==
    /\ pc = "generate"
    /\ nfo_xml' = generate(nfo_data.val, data_type, args.pretty, args.encoding)
    /\ IF nfo_xml'.ok
       THEN pc' = "extract" /\ UNCHANGED exit_code
       ELSE pc' = "failed" /\ exit_code' = 1
    /\ UNCHANGED <<recVars, dateVars, pads_year, requests, heapVars, fmtVars, imgVars, args>>

\* extracted_images = converter.extract_images(stash_data, output_path), when
\* --extract-images is given
MainExtract ==
    /\ pc = "extract"
    /\ IF args.extract_images
       THEN \E io \in FaultChoices(stash_data) :
               LET r == extract_images([fs |-> fs, written |-> written,
                                        extracted_images |-> extracted_images],
                                       stash_data, output_path, io)
               IN  /\ faults' = io
                   /\ extracted_images' = r.st.extracted_images
                   /\ written' = r.st.written
                   /\ fs' = r.st.fs
                   /\ saved_images' = r.saved
                   /\ calls' = calls + 1
       ELSE UNCHANGED <<faults, extracted_images, written, fs, saved_images, calls>>
    /\ pc' = "write"
    /\ UNCHANGED <<recVars, dateVars, pads_year, requests, heapVars, fmtVars, output_path, mainVars, frames>>

\* with open(output_path, 'w', encoding=args.encoding) as f: f.write(nfo_xml)
MainWrite ==
    /\ pc = "write"
    /\ \E io \in {"ok", "open_fails", "write_fails"} :
          /\ fs' = CASE io = "ok" -> WriteFile(fs, NfoPath(output_path), nfo_xml.val)
                     [] io = "write_fails" -> WriteFile(fs, NfoPath(output_path), <<>>)
                     [] OTHER -> fs
          /\ IF io = "ok"
             THEN pc' = "done" /\ exit_code' = 0
             ELSE pc' = "failed" /\ exit_code' = 1
    /\ UNCHANGED <<recVars, dateVars, pads_year, requests, heapVars, fmtVars, extracted_images,
                   saved_images, written, calls, output_path, faults, frames, args, nfo_xml>>

Next ==
    \/ MainParse
    \/ MainDetect
    \/ MainConvert
    \/ MainGenerate
    \/ MainExtract
    \/ MainWrite

Spec == Init /\ [][Next]_vars

SupportedKinds == {"scene", "performer", "gallery"}

\* kinds generate is handed besides the supported ones
C2_OtherKinds == {"unknown", "auto", "movie", "actor", "Scene", ""}

\* convert has returned or raised
C2_ConvertRan == "ok" \in DOMAIN nfo_data

\* C2: once convert has run on a record whose kind is not scene, performer or
\* gallery, the run has ended in error with the unsupported-kind error of
\* convert, nothing was rendered, no image was extracted and no NFO or image
\* file was written; and generate fails with the same error for every kind
\* other than scene, gallery and performer.
C2_UnsupportedKindFails ==
    /\ (C2_ConvertRan /\ data_type \notin SupportedKinds) =>
          /\ pc = "failed"
          /\ exit_code = 1
          /\ nfo_data = ValueError
          /\ nfo_xml = None
          /\ extracted_images = <<>> /\ saved_images = <<>> /\ calls = 0
          /\ DOMAIN fs = {}
    /\ (C2_ConvertRan /\ nfo_data.ok) =>
          \A k \in C2_OtherKinds :
              generate(nfo_data.val, k, args.pretty, args.encoding) = ValueError

\* a run with --extract-images on a record of unknown kind that carries an
\* image has ended
C2_Witness ==
    /\ pc = "failed"
    /\ data_type = "unknown"
    /\ args.extract_images
    /\ "cover" \in DOMAIN stash_data
    /\ nfo_data = ValueError

(***************************************************************************)
(* The order of layouts in _convert_date                                   *)
(***************************************************************************)
\* the five layouts of the claim, in its order
C14_Layouts == <<
    <<"%", "Y", "-", "%", "m", "-", "%", "d">>, <<"%", "d", "/", "%", "m", "/", "%", "Y">>, <<"%", "m", "/", "%", "d", "/", "%", "Y">>, <<"%", "d", "-", "%", "m", "-", "%", "Y">>, <<"%", "m", "-", "%", "d", "-", "%", "Y">> >>

\* the date-only portion: what precedes the first 'T'
C14_DateOnly(s) == IF Find(s, "T") = 0 THEN s ELSE SubSeq(s, 1, Find(s, "T") - 1)

\* the first layout of the claim, from layout i on, under which the
\* date-only portion is a valid date; 0 when there is none
RECURSIVE C14_FirstLayout(_, _)
C14_FirstLayout(s, i) ==
    IF i > Len(C14_Layouts) THEN 0
    ELSE IF strptime(C14_DateOnly(s), C14_Layouts[i]).ok THEN i
    ELSE C14_FirstLayout(s, i + 1)

\* YYYY-MM-DD as the platform renders it
C14_Render(dt) == strftime_ymd(dt, pads_year)

\* the portion is DD?MM?YYYY in digits, with one separator used twice, a year
\* of 1000 or more, a month 01..12 and a day that month has
C14_PlainDayFirst(head) ==
    /\ Len(head) = 10
    /\ head[3] \in {"/", "-"} /\ head[6] = head[3]
    /\ \A i \in {1, 2, 4, 5, 7, 8, 9, 10} : head[i] \in Digits
    /\ head[7] # "0"
    /\ StrToInt(SubSeq(head, 4, 5)) \in 1..12
    /\ StrToInt(SubSeq(head, 1, 2)) \in
          1..DaysInMonth(StrToInt(SubSeq(head, 7, 10)), StrToInt(SubSeq(head, 4, 5)))

\* C14: the date-only portion (what precedes the first 'T') is tried against
\* YYYY-MM-DD, DD/MM/YYYY, MM/DD/YYYY, DD-MM-YYYY, MM-DD-YYYY in this order and
\* the first success is returned re-rendered; so a date valid day-first is
\* read day-first and the month-first reading is used only when the
\* day-first reading is not a valid date.
C14_DayFirstWins ==
    (pc = "date_done" /\ date_str # <<>> /\ C14_FirstLayout(date_str, 1) # 0) =>
        LET head == C14_DateOnly(date_str)
            k == C14_FirstLayout(date_str, 1)
        IN  /\ date_out = C14_Render(strptime(head, C14_Layouts[k]))
            /\ k \in {3, 5} => ~strptime(head, C14_Layouts[k - 1]).ok
            /\ strptime(head, C14_Layouts[2]).ok =>
                  date_out = C14_Render(strptime(head, C14_Layouts[2]))
            /\ strptime(head, C14_Layouts[4]).ok =>
                  date_out = C14_Render(strptime(head, C14_Layouts[4]))
            /\ C14_PlainDayFirst(head) =>
                  date_out = SubSeq(head, 7, 10) \o <<"-">> \o SubSeq(head, 4, 5)
                             \o <<"-">> \o SubSeq(head, 1, 2)

\* a slash date valid under both readings, with a time part, was read
\* day-first: 05/02/2023T10:30:00 gave 2023-02-05
C14_Witness ==
    /\ pc = "date_done"
    /\ date_str = <<"0", "5", "/", "0", "2", "/", "2", "0", "2", "3", "T", "1", "0", ":", "3", "0", ":", "0", "0">>
    /\ strptime(C14_DateOnly(date_str), C14_Layouts[2]).ok
    /\ strptime(C14_DateOnly(date_str), C14_Layouts[3]).ok
    /\ date_out = <<"2", "0", "2", "3", "-", "0", "2", "-", "0", "5">>

(***************************************************************************)
(* Specification SpecRuntime: convert applied to scene records over the    *)
(* values 'file' and its 'duration' may hold.                              *)
(***************************************************************************)
\* largest duration tried, in seconds
MaxDuration == 125

DurationValues ==
    { JInt(n) : n \in (0 - MaxDuration)..MaxDuration }
    \cup { JNum(2 * n + 1, -1, TRUE) : n \in (0 - MaxDuration)..MaxDuration }
    \cup { JStr(IF n < 0 THEN <<"-">> \o IntToStr(0 - n) ELSE IntToStr(n)) :
             n \in (0 - MaxDuration)..MaxDuration }
    \cup { JNum(1, DBL_MAX_EXP, FALSE), JInt(3600), JInt(7199),
           JStr(<<"a", "b", "c">>), JStr(<<"1", ":", "0", "5">>), JStr(<<>>), None,
           JBool(TRUE), JBool(FALSE), JList(<<>>), JList(<<JInt(60)>>),
           JDict(EmptyDict), JDict([seconds |-> JInt(60)]) }

RuntimeRecords ==
    { [title |-> TitleA, file |-> JDict([duration |-> d])] : d \in DurationValues }
    \cup { [title |-> TitleA, file |-> f] :
             f \in {JDict(EmptyDict), JDict([size |-> JInt(9)]), None, JStr(<<"a", ".", "m", "p", "4">>),
                    JList(<<JDict([duration |-> JInt(120)])>>), JInt(120)} }
    \cup { [title |-> TitleA], [title |-> TitleA, duration |-> JInt(120)] }

InitRuntime ==
    /\ HeapIdle
    /\ pc = "start"
    /\ stash_data \in RuntimeRecords
    /\ data_type = "scene"
    /\ nfo_data = None
    /\ DateIdle /\ FmtIdle /\ ImgIdle /\ MainIdle
    /\ pads_year = TRUE
    /\ requests = <<>>

SpecRuntime == InitRuntime /\ [][NextConvert]_vars

\* the duration the claim calls numeric: a number, or a string of digits with
\* an optional sign
C15_Numeric(d) == d.jt = "num" \/ (d.jt = "str" /\ IsNumericStr(d.val))

\* the duration of the record, when 'file' is a mapping that holds one
C15_HasDuration ==
    /\ "file" \in DOMAIN stash_data
    /\ stash_data["file"].jt = "dict"
    /\ "duration" \in DOMAIN stash_data["file"].val

C15_Duration == stash_data["file"].val["duration"]

\* r is d / 60 truncated to an integer, d = num / den seconds
C15_IsTruncatedQuotient(r, num, den) ==
    IF num >= 0
    THEN r >= 0 /\ 60 * den * r <= num /\ num < 60 * den * (r + 1)
    ELSE r <= 0 /\ 60 * den * r >= num /\ num > 60 * den * (r - 1)

\* the duration as a fraction num / den
C15_Num(d) ==
    IF d.jt = "str" THEN StrNumVal(d.val)
    ELSE IF d.scale >= 0 THEN d.val * Pow2(d.scale) ELSE d.val
C15_Den(d) == IF d.jt = "num" /\ d.scale < 0 THEN Pow2(0 - d.scale) ELSE 1

\* the duration is within the range of a double
C15_InRange(d) == d.jt = "str" \/ d.scale < DBL_MAX_EXP

\* what the claim says of the runtime of the converted record
C15_RuntimeRule(inRangeOnly) ==
    pc = "converted" =>
        IF C15_HasDuration /\ C15_Numeric(C15_Duration) /\ Truthy(C15_Duration)
        THEN (inRangeOnly => C15_InRange(C15_Duration)) =>
                /\ nfo_data.ok
                /\ "runtime" \in DOMAIN nfo_data.val
                /\ nfo_data.val["runtime"].jt = "num"
                /\ ~nfo_data.val["runtime"].fl
                /\ nfo_data.val["runtime"].scale = 0
                /\ C15_IsTruncatedQuotient(nfo_data.val["runtime"].val,
                                           C15_Num(C15_Duration), C15_Den(C15_Duration))
        ELSE (~C15_HasDuration \/ C15_Duration.jt # "bool") =>
                /\ nfo_data.ok
                /\ "runtime" \notin DOMAIN nfo_data.val

\* C15: for a scene whose 'file' is a mapping with a numeric duration d (a
\* number or a numeric string), runtime is d / 60 truncated to an integer;
\* when 'file' is not a mapping, or the duration is absent, falsy or not
\* numeric, no runtime is set and no error is raised.
C15_RuntimeTruncated == C15_RuntimeRule(FALSE)

\* the same for the durations a double can hold
C15_RuntimeTruncatedInRange == C15_RuntimeRule(TRUE)

(***************************************************************************)
(* Reading a rendered document back: the markup and text events of the     *)
(* string, and from them the elements in document order, each with its     *)
(* depth, tag, attributes and text.  Text made of white space between two  *)
(* tags of which the second is not the end tag of the first is             *)
(* inter-element white space.                                              *)
(***************************************************************************)
\* the document after its XML declaration
XmlBody(doc) == Drop(doc, Find(doc, ">"))

\* the character an entity or character reference stands for
XmlEntity(name) ==
    CASE name = <<"a", "m", "p">> -> "&"
      [] name = <<"l", "t">> -> "<"
      [] name = <<"g", "t">> -> ">"
      [] name = <<"q", "u", "o", "t">> -> "\""
      [] name = <<"#", "1", "0">> -> "\n"
      [] name = <<"#", "1", "3">> -> "\r"
      [] name \in {<<"#", "0", "9">>, <<"#", "9">>} -> "\t"

\* character data with its references replaced: a reference runs from its
\* "&" to the next ";" and stands for one character
XmlUnescape(s) ==
    LET inside(i) == \E j \in 1..(i - 1) :
                         s[j] = "&" /\ \A k \in j..(i - 1) : s[k] # ";"
        semi(i) == CHOOSE k \in (i + 1)..Len(s) :
                       s[k] = ";" /\ \A m \in (i + 1)..(k - 1) : s[m] # ";"
    IN  Concat([i \in 1..Len(s) |->
                   IF inside(i) THEN <<>>
                   ELSE IF s[i] = "&" THEN <<XmlEntity(SubSeq(s, i + 1, semi(i) - 1))>>
                   ELSE <<s[i]>>])

\* s without its trailing spaces
XmlRTrim(s) ==
    LET inked == {i \in 1..Len(s) : s[i] # " "}
    IN  IF inked = {} THEN <<>>
        ELSE SubSeq(s, 1, CHOOSE i \in inked : \A j \in inked : j <= i)

\* the event of the markup <inner>
XmlMarkup(inner) ==
    IF inner[1] = "/"
    THEN [kind |-> "close", name |-> Drop(inner, 1), attrs |-> <<>>, text |-> <<>>]
    ELSE LET short == inner[Len(inner)] = "/"
             core == XmlRTrim(IF short THEN SubSeq(inner, 1, Len(inner) - 1) ELSE inner)
             sp == Find(core, " ")
         IN  [kind |-> IF short THEN "empty" ELSE "open",
              name |-> IF sp = 0 THEN core ELSE SubSeq(core, 1, sp - 1),
              attrs |-> IF sp = 0 THEN <<>> ELSE XmlUnescape(Drop(core, sp)),
              text |-> <<>>]

\* the text event of the characters from..to of s, none when there are none
XmlTextEvent(s, from, to) ==
    IF from > to THEN <<>>
    ELSE <<[kind |-> "text", name |-> <<>>, attrs |-> <<>>, text |-> SubSeq(s, from, to)]>>

\* the events of a document body: "<" and ">" occur in markup only (in text
\* and attribute values they are written as references), so the k-th markup
\* runs from the k-th "<" to the k-th ">", and text lies between them
XmlEventsAt(s, lt, gt) ==
    IF lt = <<>> THEN XmlTextEvent(s, 1, Len(s))
    ELSE XmlTextEvent(s, 1, lt[1] - 1)
         \o Concat([k \in 1..Len(lt) |->
                       <<XmlMarkup(SubSeq(s, lt[k] + 1, gt[k] - 1))>>
                       \o XmlTextEvent(s, gt[k] + 1,
                                       IF k < Len(lt) THEN lt[k + 1] - 1 ELSE Len(s))])

XmlEvents(s) ==
    XmlEventsAt(s, SelectSeq([i \in 1..Len(s) |-> i], LAMBDA i : s[i] = "<"),
                   SelectSeq([i \in 1..Len(s) |-> i], LAMBDA i : s[i] = ">"))

\* the nesting depth at event i: start tags before it, less end tags before it
XmlDepth(ev, i) ==
    Cardinality({j \in 1..(i - 1) : ev[j].kind = "open"})
    - Cardinality({j \in 1..(i - 1) : ev[j].kind = "close"})

\* the text of the element that starts at event i
XmlTextAt(ev, i) ==
    IF ev[i].kind = "open" /\ i + 2 <= Len(ev)
       /\ ev[i + 1].kind = "text" /\ ev[i + 2].kind = "close"
    THEN XmlUnescape(ev[i + 1].text)
    ELSE <<>>

\* the elements of the events, in document order
XmlElementsOf(ev) ==
    LET starts == SelectSeq([i \in 1..Len(ev) |-> i],
                            LAMBDA i : ev[i].kind \in {"open", "empty"})
    IN  [k \in 1..Len(starts) |->
            [depth |-> XmlDepth(ev, starts[k]),
             tag |-> ev[starts[k]].name,
             attrs |-> ev[starts[k]].attrs,
             text |-> XmlTextAt(ev, starts[k])]]

\* the elements of a rendered document
XmlElements(doc) == XmlElementsOf(XmlEvents(XmlBody(doc)))

\* the children of the root: the elements at depth 1
XmlChildren(doc) == SelectSeq(XmlElements(doc), LAMBDA e : e.depth = 1)

\* the tags of a sequence of elements
XmlTags(elems) == [i \in 1..Len(elems) |-> elems[i].tag]

(***************************************************************************)
(* Converting a record and rendering the result, as a caller of            *)
(* StashToNfoConverter.convert and NfoGenerator.generate does.             *)
(***************************************************************************)
\* the records that hold nothing, or the key k with one of the values
Opt(k, values) == {EmptyDict} \cup { [x \in {k} |-> v] : v \in values }

TitleChoices == Opt("title", {None, JStr(<<"A">>), JStr(<<"a", "<", "b", "&", "\"", "c", "\"", ">">>)})
DetailsChoices == Opt("details", {None, JStr(<<"p">>), JStr(<<"x", "\n", "\n", "y">>)})
RatingChoices == Opt("rating", {None, JInt(4)})
UrlChoices == Opt("url", {None, JStr(<<>>), JStr(<<"u", "&", "v">>)})
StudioChoices == Opt("studio", {None, JStr(<<>>), JStr(<<"S">>)})
DateChoices == Opt("date", {None, JStr(<<>>), JStr(<<"2", "0", "2", "0", "-", "0", "1", "-", "0", "2">>), JStr(<<"2", "5", "/", "1", "2", "/", "2", "0", "2", "3">>)})
FileChoices ==
    Opt("file", {JDict(EmptyDict), JStr(<<"a", ".", "m", "p", "4">>)}
                \cup { JDict([duration |-> d]) :
                         d \in {JInt(125), JInt(30), JInt(0), JInt(-90), JNum(119, -1, TRUE),
                                JStr(<<"9", "0">>), JStr(<<"a", "b", "c">>)} })
TagsChoices ==
    Opt("tags", {JList(<<>>), JList(<<JStr(<<"x">>)>>), JStr(<<"x">>),
                 JList(<<JStr(<<"x">>), JStr(<<>>), JStr(<<"x">>), JStr(<<"y">>)>>),
                 JList(<<None, JStr(<<"y">>), JStr(<<"x">>)>>)})
PerformersChoices ==
    Opt("performers", {JList(<<JStr(<<"P">>)>>),
                       JList(<<JDict([name |-> JStr(<<"Q">>), role |-> JStr(<<"R">>)]), JStr(<<"P">>)>>)})

\* scene and gallery records
MovieRecords ==
    { t @@ d @@ r : t \in TitleChoices, d \in DetailsChoices, r \in RatingChoices }
    \cup { u @@ s @@ d @@ f : u \in UrlChoices, s \in StudioChoices, d \in DateChoices,
                              f \in FileChoices }
    \cup { [title |-> TitleA] @@ g @@ p @@ u @@ f :
             g \in TagsChoices, p \in PerformersChoices,
             u \in Opt("url", {JStr(<<"u">>)}), f \in Opt("file", {JDict([duration |-> JInt(125)])}) }

\* the value a performer record holds under each biography key when it is set
BioValue ==
    [gender |-> JStr(<<"F">>), ethnicity |-> JStr(<<"E">>), country |-> JStr(<<"U", "S">>),
     height |-> JInt(170), measurements |-> JStr(<<"M">>), eye_color |-> JStr(<<"b", "l", "u", "e">>),
     career_length |-> JStr(<<"2", "0", "1", "0", "-">>), tattoos |-> JStr(<<"T">>), piercings |-> JStr(<<"R", "&", "R">>)]

AliasesChoices ==
    Opt("aliases", {JList(<<>>), JList(<<JStr(<<"J", "a", "n", "e">>), JStr(<<"J", "&", "J">>)>>),
                    JList(<<JStr(<<"J", "a", "n", "e">>), JStr(<<>>), JStr(<<"J", "a", "n", "e", "y">>)>>),
                    JStr(<<"J", "a", "n", "e", ",", " ", "J", "a", "n", "e", "y">>)})

SocialValue == [url |-> JStr(<<"u">>), twitter |-> JStr(<<"t">>), instagram |-> JStr(<<"i">>)]

PerformerRecords ==
    { [k \in ks |-> BioValue[k]] @@ a :
        ks \in SUBSET DOMAIN BioValue,
        a \in Opt("aliases", {JList(<<JStr(<<"J", "a", "n", "e">>), JStr(<<"J", "&", "J">>)>>)}) }
    \cup { g @@ h @@ a : g \in Opt("gender", {None, JStr(<<>>), JStr(<<"F">>)}),
                         h \in Opt("height", {JInt(0), JInt(170)}), a \in AliasesChoices }
    \cup { n @@ b @@ [k \in ks |-> SocialValue[k]] @@ g :
             n \in Opt("name", {None, JStr(<<"N">>)}),
             b \in Opt("birthdate", {JStr(<<>>), JStr(<<"1", "9", "9", "0", "-", "0", "5", "-", "0", "6">>), JStr(<<"0", "6", "/", "0", "5", "/", "1", "9", "9", "0">>)}),
             ks \in SUBSET DOMAIN SocialValue,
             g \in Opt("piercings", {JStr(<<"P">>)}) }

RenderArgs == [pretty : BOOLEAN, encoding : {Utf8}]

InitRender ==
    /\ HeapIdle
    /\ pc = "start"
    /\ \/ data_type \in {"scene", "gallery"} /\ stash_data \in MovieRecords
       \/ data_type = "performer" /\ stash_data \in PerformerRecords
    /\ nfo_data = None
    /\ args \in RenderArgs
    /\ nfo_xml = None
    /\ exit_code = -1
    /\ DateIdle /\ FmtIdle /\ ImgIdle
    /\ pads_year = TRUE
    /\ requests = <<>>

Generate ==
    /\ pc = "converted"
    /\ nfo_data.ok
    /\ nfo_xml' = generate(nfo_data.val, data_type, args.pretty, args.encoding)
    /\ pc' = "rendered"
    /\ UNCHANGED <<recVars, dateVars, pads_year, requests, heapVars, fmtVars, imgVars, args, exit_code>>

NextRender == Convert \/ Generate

SpecRender == InitRender /\ [][NextRender]_vars

\* a document was rendered
Rendered == pc = "rendered" /\ nfo_xml.ok

\* the children of the rendered document's root, and their tags
RenderedChildren == XmlChildren(nfo_xml.val)
RenderedTags == XmlTags(RenderedChildren)

\* the value of the raw record under a key, None when the key is absent
Raw(k) == Get(stash_data, k, None)

\* the text the value is rendered as: empty for an absent, null or empty value
TextOf(v) == IF Truthy(v) THEN v.val ELSE <<>>

\* the number of elements of a sequence that satisfy a test
Count(s, Test(_)) == Len(SelectSeq(s, Test))

\* the positions of the tag among the children of the rendered root
PositionsOf(tag) == { i \in 1..Len(RenderedTags) : RenderedTags[i] = tag }

(***************************************************************************)
(* C11: every scene or gallery record, whatever fields are absent or null, *)
(* is rendered, and the movie document has exactly one title,              *)
(* originaltitle, plot and userrating element, as the first four children  *)
(* of the root in that order; title, originaltitle and plot have empty    *)
(* text when the record's title or details is absent or null, and          *)
(* userrating holds the converted rating written as a string.              *)
(***************************************************************************)
C11_BasicTags == <<<<"t", "i", "t", "l", "e">>, <<"o", "r", "i", "g", "i", "n", "a", "l", "t", "i", "t", "l", "e">>, <<"p", "l", "o", "t">>, <<"u", "s", "e", "r", "r", "a", "t", "i", "n", "g">>>>

C11_IsMovie == data_type \in {"scene", "gallery"}

C11_BasicElementsAlwaysFirst ==
    /\ (C11_IsMovie /\ pc = "converted") => nfo_data.ok
    /\ (C11_IsMovie /\ pc = "rendered") =>
        /\ nfo_xml.ok
        /\ Len(RenderedTags) >= 4
        /\ SubSeq(RenderedTags, 1, 4) = C11_BasicTags
        /\ \A i \in 1..4 : PositionsOf(C11_BasicTags[i]) = {i}
        /\ ~Truthy(Raw("title")) =>
              RenderedChildren[1].text = <<>> /\ RenderedChildren[2].text = <<>>
        /\ ~Truthy(Raw("details")) => RenderedChildren[3].text = <<>>
        /\ RenderedChildren[4].text = PyStr(Get(nfo_data.val, "userrating", JInt(0)))
        /\ RenderedChildren[4].text # <<>>

\* C11 witness: a record without title, details and rating was rendered, and
\* the document starts with three empty elements and the rating "0"
C11_Witness ==
    /\ Rendered /\ C11_IsMovie
    /\ DOMAIN stash_data \cap {"title", "details", "rating"} = {}
    /\ RenderedChildren[1].text = <<>>
    /\ RenderedChildren[4].text = <<"0">>
    /\ Len(RenderedTags) > 4

(***************************************************************************)
(* C16: in the rendered movie document of a scene, uniqueid (with          *)
(* type="stash", default="true" and the url as text) is present exactly    *)
(* when the record's url is truthy, premiered exactly when its date is     *)
(* truthy, studio exactly when its studio is truthy, and runtime exactly   *)
(* when 'file' is a mapping whose duration is truthy and numeric; an       *)
(* element that is not present is omitted entirely.                        *)
(***************************************************************************)
\* the tag occurs once among the children of the root if cond, and not at all otherwise
C16_PresentIff(tag, cond) ==
    Cardinality(PositionsOf(tag)) = IF cond THEN 1 ELSE 0

C16_UniqueId == RenderedChildren[CHOOSE i \in PositionsOf(<<"u", "n", "i", "q", "u", "e", "i", "d">>) : TRUE]

C16_DurationTruthy ==
    C15_HasDuration /\ Truthy(C15_Duration) /\ C15_Numeric(C15_Duration)

C16_OptionalElements ==
    (Rendered /\ data_type = "scene") =>
        /\ C16_PresentIff(<<"u", "n", "i", "q", "u", "e", "i", "d">>, Truthy(Raw("url")))
        /\ Truthy(Raw("url")) =>
              /\ C16_UniqueId.attrs = <<"t", "y", "p", "e", "=", "\"", "s", "t", "a", "s", "h", "\"", " ", "d", "e", "f", "a", "u", "l", "t", "=", "\"", "t", "r", "u", "e", "\"">>
              /\ C16_UniqueId.text = Raw("url").val
        /\ C16_PresentIff(<<"p", "r", "e", "m", "i", "e", "r", "e", "d">>, Truthy(Raw("date")))
        /\ C16_PresentIff(<<"s", "t", "u", "d", "i", "o">>, Truthy(Raw("studio")))
        /\ C16_PresentIff(<<"r", "u", "n", "t", "i", "m", "e">>, C16_DurationTruthy)

\* the same except for the runtime element
C16_OptionalElementsButRuntime ==
    (Rendered /\ data_type = "scene") =>
        /\ C16_PresentIff(<<"u", "n", "i", "q", "u", "e", "i", "d">>, Truthy(Raw("url")))
        /\ Truthy(Raw("url")) =>
              /\ C16_UniqueId.attrs = <<"t", "y", "p", "e", "=", "\"", "s", "t", "a", "s", "h", "\"", " ", "d", "e", "f", "a", "u", "l", "t", "=", "\"", "t", "r", "u", "e", "\"">>
              /\ C16_UniqueId.text = Raw("url").val
        /\ C16_PresentIff(<<"p", "r", "e", "m", "i", "e", "r", "e", "d">>, Truthy(Raw("date")))
        /\ C16_PresentIff(<<"s", "t", "u", "d", "i", "o">>, Truthy(Raw("studio")))

(***************************************************************************)
(* C17: for every scene or gallery record whose tags are a list, the       *)
(* rendered document has one genre element per non-empty entry, in list    *)
(* order, then one tag element per non-empty entry in the same order: as   *)
(* many genre as tag elements, every genre before every tag, all of them   *)
(* after uniqueid when it is present and before every actor, and a value   *)
(* that occurs twice in the list is rendered twice.                        *)
(***************************************************************************)
\* the texts of the children of the rendered root that have the tag, in order
C17_TextsOf(tag) ==
    LET es == SelectSeq(RenderedChildren, LAMBDA e : e.tag = tag)
    IN  [i \in 1..Len(es) |-> es[i].text]

\* the non-empty entries of the record's tags, in list order
C17_NonEmptyTags ==
    LET es == SelectSeq(stash_data["tags"].val, Truthy)
    IN  [i \in 1..Len(es) |-> es[i].val]

C17_HasGenreList == "tags" \in DOMAIN stash_data /\ IsList(stash_data["tags"])

C17_GenresThenTags ==
    (Rendered /\ C11_IsMovie /\ C17_HasGenreList) =>
        /\ C17_TextsOf(<<"g", "e", "n", "r", "e">>) = C17_NonEmptyTags
        /\ C17_TextsOf(<<"t", "a", "g">>) = C17_NonEmptyTags
        /\ Cardinality(PositionsOf(<<"g", "e", "n", "r", "e">>)) = Cardinality(PositionsOf(<<"t", "a", "g">>))
        /\ \A g \in PositionsOf(<<"g", "e", "n", "r", "e">>) :
              /\ \A t \in PositionsOf(<<"t", "a", "g">>) : g < t
              /\ \A u \in PositionsOf(<<"u", "n", "i", "q", "u", "e", "i", "d">>) : u < g
        /\ \A t \in PositionsOf(<<"t", "a", "g">>) : \A a \in PositionsOf(<<"a", "c", "t", "o", "r">>) : t < a

\* C17 witness: a list with an empty entry and a repeated value was rendered
\* between a uniqueid and two actors
C17_Witness ==
    /\ Rendered /\ C11_IsMovie /\ C17_HasGenreList
    /\ C17_TextsOf(<<"g", "e", "n", "r", "e">>) = <<<<"x">>, <<"x">>, <<"y">>>>
    /\ Len(stash_data["tags"].val) = 4
    /\ PositionsOf(<<"u", "n", "i", "q", "u", "e", "i", "d">>) # {}
    /\ Cardinality(PositionsOf(<<"a", "c", "t", "o", "r">>)) = 2

(***************************************************************************)
(* C18: the biography of a converted performer record is its 'Label:       *)
(* value' lines joined by newlines, one line for each truthy field, in the *)
(* order Gender, Ethnicity, Country, Height, Measurements, Eye Color,      *)
(* Career Length, Tattoos, Piercings, followed, when 'aliases' is a        *)
(* non-empty list, by the line 'Aliases: ' and the aliases joined by ', '; *)
(* it is the empty string when no field is truthy.                         *)
(***************************************************************************)
C18_Order == <<"gender", "ethnicity", "country", "height", "measurements",
               "eye_color", "career_length", "tattoos", "piercings">>

C18_Label ==
    [gender |-> <<"G", "e", "n", "d", "e", "r">>, ethnicity |-> <<"E", "t", "h", "n", "i", "c", "i", "t", "y">>, country |-> <<"C", "o", "u", "n", "t", "r", "y">>,
     height |-> <<"H", "e", "i", "g", "h", "t">>, measurements |-> <<"M", "e", "a", "s", "u", "r", "e", "m", "e", "n", "t", "s">>, eye_color |-> <<"E", "y", "e", " ", "C", "o", "l", "o", "r">>,
     career_length |-> <<"C", "a", "r", "e", "e", "r", " ", "L", "e", "n", "g", "t", "h">>, tattoos |-> <<"T", "a", "t", "t", "o", "o", "s">>, piercings |-> <<"P", "i", "e", "r", "c", "i", "n", "g", "s">>]

\* the keys of the truthy fields of the record, in the order of the claim
C18_TruthyKeys == SelectSeq(C18_Order, LAMBDA k : Truthy(Raw(k)))

C18_HasAliases == IsList(Raw("aliases")) /\ Raw("aliases").val # <<>>

\* the aliases joined by ', ': each alias, a ', ' before all but the first
RECURSIVE C18_Joined(_)
C18_Joined(as) ==
    IF as = <<>> THEN <<>>
    ELSE C18_Joined(SubSeq(as, 1, Len(as) - 1))
         \o (IF Len(as) > 1 THEN <<",", " ">> ELSE <<>>) \o as[Len(as)].val

\* the lines the claim gives the biography
C18_Lines ==
    [i \in 1..Len(C18_TruthyKeys) |->
        C18_Label[C18_TruthyKeys[i]] \o <<":", " ">> \o PyStr(Raw(C18_TruthyKeys[i]))]
    \o (IF C18_HasAliases THEN <<<<"A", "l", "i", "a", "s", "e", "s", ":", " ">> \o C18_Joined(Raw("aliases").val)>> ELSE <<>>)

\* the text cut at its newlines
RECURSIVE C18_Split(_)
C18_Split(s) ==
    IF Find(s, "\n") = 0 THEN <<s>>
    ELSE <<SubSeq(s, 1, Find(s, "\n") - 1)>> \o C18_Split(Drop(s, Find(s, "\n")))

C18_Biography == nfo_data.val["biography"].val

C18_BiographyLines ==
    (pc = "converted" /\ data_type = "performer") =>
        /\ nfo_data.ok
        /\ IsStr(nfo_data.val["biography"])
        /\ IF C18_Lines = <<>>
           THEN C18_Biography = <<>>
           ELSE C18_Split(C18_Biography) = C18_Lines

\* C18 witness: a record with all nine fields and two aliases was converted
\* to a biography of ten lines
C18_Witness ==
    /\ pc = "converted" /\ data_type = "performer"
    /\ Len(C18_TruthyKeys) = 9
    /\ C18_HasAliases
    /\ Len(C18_Split(C18_Biography)) = 10

(***************************************************************************)
(* C19: for every performer record, the children of the rendered actor     *)
(* root are, in this order: name (always), biography (only if it is not    *)
(* empty), birthdate (only if the record has a truthy one), one element    *)
(* per truthy value under gender, ethnicity, country, eye_color, height,   *)
(* measurements, tattoos, piercings, aliases (a list gives one element per *)
(* truthy item, under the key as tag), then one element per truthy value   *)
(* under url, twitter, instagram; a falsy value gives no element.          *)
(***************************************************************************)
C19_DetailsOrder == <<"gender", "ethnicity", "country", "eye_color", "height",
                      "measurements", "tattoos", "piercings", "aliases">>
C19_SocialOrder == <<"url", "twitter", "instagram">>

\* the tag of a key: the key itself
C19_Tag ==
    [gender |-> <<"g", "e", "n", "d", "e", "r">>, ethnicity |-> <<"e", "t", "h", "n", "i", "c", "i", "t", "y">>, country |-> <<"c", "o", "u", "n", "t", "r", "y">>,
     eye_color |-> <<"e", "y", "e", "_", "c", "o", "l", "o", "r">>, height |-> <<"h", "e", "i", "g", "h", "t">>, measurements |-> <<"m", "e", "a", "s", "u", "r", "e", "m", "e", "n", "t", "s">>,
     tattoos |-> <<"t", "a", "t", "t", "o", "o", "s">>, piercings |-> <<"p", "i", "e", "r", "c", "i", "n", "g", "s">>, aliases |-> <<"a", "l", "i", "a", "s", "e", "s">>,
     url |-> <<"u", "r", "l">>, twitter |-> <<"t", "w", "i", "t", "t", "e", "r">>, instagram |-> <<"i", "n", "s", "t", "a", "g", "r", "a", "m">>]

\* the values rendered for a key: the truthy items of a list, or the value
\* itself when it is truthy
C19_ValuesOf(k) ==
    IF IsList(Raw(k)) THEN SelectSeq(Raw(k).val, Truthy)
    ELSE IF Truthy(Raw(k)) THEN <<Raw(k)>> ELSE <<>>

\* the elements of the keys, key by key in the given order
C19_ElementsOf(keys) ==
    Concat([k \in 1..Len(keys) |->
               [i \in 1..Len(C19_ValuesOf(keys[k])) |->
                   [tag |-> C19_Tag[keys[k]], text |-> PyStr(C19_ValuesOf(keys[k])[i])]]])

\* the children the claim gives the actor root after the name
C19_Expected ==
    (IF nfo_data.val["biography"].val # <<>>
     THEN <<[tag |-> <<"b", "i", "o", "g", "r", "a", "p", "h", "y">>, text |-> nfo_data.val["biography"].val]>> ELSE <<>>)
    \o (IF Truthy(Raw("birthdate"))
        THEN <<[tag |-> <<"b", "i", "r", "t", "h", "d", "a", "t", "e">>, text |-> nfo_data.val["birthdate"].val]>> ELSE <<>>)
    \o C19_ElementsOf(C19_DetailsOrder)
    \o C19_ElementsOf(C19_SocialOrder)

C19_ActorChildrenOrder ==
    /\ (pc = "rendered" /\ data_type = "performer") => nfo_xml.ok
    /\ (Rendered /\ data_type = "performer") =>
        /\ Len(RenderedChildren) = 1 + Len(C19_Expected)
        /\ RenderedChildren[1].tag = <<"n", "a", "m", "e">>
        /\ RenderedChildren[1].text = TextOf(Raw("name"))
        /\ \A i \in 1..Len(C19_Expected) :
              /\ RenderedChildren[i + 1].tag = C19_Expected[i].tag
              /\ RenderedChildren[i + 1].text = C19_Expected[i].text

\* C19 witness: a performer with a height, an eye colour and two aliases was
\* rendered: eye_color comes before height, and aliases twice
C19_Witness ==
    /\ Rendered /\ data_type = "performer"
    /\ \E i \in PositionsOf(<<"e", "y", "e", "_", "c", "o", "l", "o", "r">>) : \E j \in PositionsOf(<<"h", "e", "i", "g", "h", "t">>) : i < j
    /\ Cardinality(PositionsOf(<<"a", "l", "i", "a", "s", "e", "s">>)) = 2
    /\ PositionsOf(<<"b", "i", "o", "g", "r", "a", "p", "h", "y">>) = {2}

(***************************************************************************)
(* C12: rendering the same normalized record with pretty printing on and   *)
(* with pretty printing off gives documents with the same elements: the    *)
(* same nesting, the same tags in the same order, the same attributes and  *)
(* the same text in every element, also when a text holds newlines or      *)
(* blank lines; the documents differ only in white space between elements. *)
(***************************************************************************)
\* the same record rendered in the other mode
C12_OtherRendering == generate(nfo_data.val, data_type, ~args.pretty, args.encoding)

C12_PrettyAndCompactAgree ==
    Rendered =>
        /\ C12_OtherRendering.ok
        /\ XmlElements(C12_OtherRendering.val) = XmlElements(nfo_xml.val)

(***************************************************************************)
(* Two extract_images calls on one converter, interleaved.  Each caller    *)
(* runs the method statement by statement: the clear() at its start, one   *)
(* iteration of the loop per image field, the return.  A frame holds the   *)
(* caller's locals: its arguments, its position i in image_fields and      *)
(* saved_images; produced are the records its own _save_base64_image calls *)
(* appended, available the contents of self.extracted_images when it       *)
(* returned, wrote the files it wrote, in order.                           *)
(***************************************************************************)
CallerIds == {"A", "B"}

InterleavedCalls == {
    [data |-> [cover |-> B64Jpeg], path |-> PathA],
    [data |-> [cover |-> B64PngUri, fanart |-> B64Gif], path |-> PathB],
    [data |-> [image |-> B64Jpeg, thumbnail |-> B64Bad], path |-> PathA],
    [data |-> [title |-> TitleA], path |-> PathB],
    [data |-> [cover |-> B64JpegLong, image |-> B64JpegLong], path |-> PathB],
    [data |-> [cover |-> B64JpegLong, image |-> B64JpegLong], path |-> PathC] }

NewFrame(call) ==
    [pc |-> "ready", i |-> 0, data |-> call.data, path |-> call.path,
     saved |-> <<>>, produced |-> <<>>, available |-> <<>>, wrote |-> <<>>]

InitInterleaved ==
    /\ HeapIdle
    /\ pc = "idle"
    /\ stash_data = EmptyDict
    /\ data_type = "auto"
    /\ nfo_data = None
    /\ pads_year = TRUE
    /\ requests = <<>>
    /\ extracted_images = <<>>
    /\ saved_images = <<>>
    /\ written = <<>>
    /\ fs = [q \in {} |-> <<>>]
    /\ calls = 0
    /\ output_path = None
    /\ faults = NoFaults
    /\ frames \in [CallerIds -> {NewFrame(call) : call \in InterleavedCalls}]
    /\ DateIdle /\ FmtIdle /\ MainIdle

\* self.extracted_images.clear(); saved_images = []
CallClear(c) ==
    /\ frames[c].pc = "ready"
    /\ extracted_images' = ClearedImages(extracted_images)
    /\ frames' = [frames EXCEPT ![c].pc = "loop", ![c].i = 1, ![c].saved = <<>>]
    /\ calls' = calls + 1
    /\ UNCHANGED <<pc, recVars, dateVars, pads_year, requests, heapVars, fmtVars, mainVars,
                   saved_images, written, fs, output_path, faults>>

\* one iteration of: for field_name, image_type in image_fields.items()
CallField(c) ==
    /\ frames[c].pc = "loop"
    /\ frames[c].i <= Len(image_fields)
    /\ LET r == ExtractField([fs |-> fs, written |-> written,
                              extracted_images |-> extracted_images],
                             frames[c].data, frames[c].path, faults, frames[c].i)
       IN  /\ fs' = r.st.fs
           /\ written' = r.st.written
           /\ extracted_images' = r.st.extracted_images
           /\ frames' = [frames EXCEPT
                  ![c].i = @ + 1,
                  ![c].saved = SavedAfter(@, r.ret),
                  ![c].produced =
                      IF Truthy(r.ret)
                      THEN Append(@, r.st.extracted_images[Len(r.st.extracted_images)])
                      ELSE @,
                  ![c].wrote =
                      IF Truthy(r.ret) THEN Append(@, r.st.written[Len(r.st.written)])
                      ELSE @]
    /\ UNCHANGED <<pc, recVars, dateVars, pads_year, requests, heapVars, fmtVars, mainVars,
                   saved_images, calls, output_path, faults>>

\* return saved_images
CallReturn(c) ==
    /\ frames[c].pc = "loop"
    /\ frames[c].i > Len(image_fields)
    /\ frames' = [frames EXCEPT ![c].pc = "done", ![c].available = extracted_images]
    /\ saved_images' = frames[c].saved
    /\ output_path' = frames[c].path
    /\ UNCHANGED <<pc, recVars, dateVars, pads_year, requests, heapVars, fmtVars, mainVars,
                   extracted_images, written, fs, calls, faults>>

NextInterleaved ==
    \E c \in CallerIds : CallClear(c) \/ CallField(c) \/ CallReturn(c)

SpecInterleaved == InitInterleaved /\ [][NextInterleaved]_vars

(***************************************************************************)
(* C20: under any interleaving of two extract_images calls on the same     *)
(* converter, the artifact records available when a call finishes are      *)
(* exactly the records that call produced: none lost to the other call's   *)
(* reset, none added by the other call.                                    *)
(***************************************************************************)
C20_CallScoped ==
    \A c \in CallerIds :
        frames[c].pc = "done" => frames[c].available = frames[c].produced

(***************************************************************************)
(* Object identity.  The lists and dicts of a Python program are objects   *)
(* in memory; a slot of a list or dict holds an immutable scalar or a      *)
(* reference to an object, and an assignment copies the reference, so two  *)
(* slots can name one object.  heap maps object ids to objects.  The       *)
(* statements of convert and extract_images that create or change an       *)
(* object are modelled as writes, each on the object its target expression *)
(* evaluates to; the scalars they store are those of convert and           *)
(* extract_images above.                                                   *)
(***************************************************************************)
Ref(id) == [jt |-> "ref", id |-> id]
IsRef(slot) == slot.jt = "ref"

\* the object a slot names: the object referred to, or the scalar itself
At(h, slot) == IF IsRef(slot) THEN h[slot.id] ELSE slot

\* the value of a slot, with every reference followed
RECURSIVE Deref(_, _)
Deref(h, slot) ==
    LET o == At(h, slot)
    IN  IF o.jt = "list" THEN JList([i \in 1..Len(o.val) |-> Deref(h, o.val[i])])
        ELSE IF o.jt = "dict" THEN JDict([k \in DOMAIN o.val |-> Deref(h, o.val[k])])
        ELSE o

\* a write: the creation of an object, d[key] = slot, l.append(slot), l.clear()
New(id, obj) == [op |-> "new", id |-> id, key |-> "", slot |-> obj]
Store(id, key, slot) == [op |-> "store", id |-> id, key |-> key, slot |-> slot]
AppendTo(id, slot) == [op |-> "append", id |-> id, key |-> "", slot |-> slot]
Clear(id) == [op |-> "clear", id |-> id, key |-> "", slot |-> None]

ApplyWrite(h, w) ==
    CASE w.op = "new" -> (w.id :> w.slot) @@ h
      [] w.op = "store" -> [h EXCEPT ![w.id].val = Put(@, w.key, w.slot)]
      [] w.op = "append" -> [h EXCEPT ![w.id].val = Append(@, w.slot)]
      [] w.op = "clear" -> [h EXCEPT ![w.id].val = <<>>]

\* the objects after the writes lo..hi, applied in order, by halves
RECURSIVE HeapAfter(_, _, _, _)
HeapAfter(h, ws, lo, hi) ==
    IF lo > hi THEN h
    ELSE IF lo = hi THEN ApplyWrite(h, ws[lo])
    ELSE CHOOSE after \in {HeapAfter(first, ws, (lo + hi) \div 2 + 1, hi) :
                              first \in {HeapAfter(h, ws, lo, (lo + hi) \div 2)}} : TRUE

ApplyWrites(h, ws) == HeapAfter(h, ws, 1, Len(ws))

\* an id no object has: the one after the largest in use
FreshId(h) == (CHOOSE m \in DOMAIN h : \A k \in DOMAIN h : k <= m) + 1

\* nfo_data[key] = <the scalar convert computed>, when it computed one
StoreIfSet(id, v, key) == IF key \in DOMAIN v THEN <<Store(id, key, v[key])>> ELSE <<>>

\* a plausible slip: the actor is the performer's own dict when it is one
actor_is_performer(fresh, performer) == IF IsRef(performer) THEN performer.id ELSE fresh

\* actor: Dict[str, Any] = {'order': i}: the object the name actor is bound to
ActorTarget(fresh, performer) == fresh

\* _convert_performers_to_actors: actors is the object a, the actor of the
\* i-th performer the object a + i
ActorWrites(h, performers, a) ==
    <<New(a, JList(<<>>))>>
    \o Concat([i \in 1..Len(performers) |->
          LET p == performers[i]
              actor == ActorTarget(a + i, p)
          IN  IF IsStr(p)
              THEN <<New(a + i, JDict(EmptyDict)), Store(actor, "order", JInt(i - 1)),
                     Store(actor, "name", p), Store(actor, "role", JStr(<<>>)),
                     AppendTo(a, Ref(actor))>>
              ELSE IF At(h, p).jt = "dict"
              THEN <<New(a + i, JDict(EmptyDict)), Store(actor, "order", JInt(i - 1)),
                     Store(actor, "name", Get(At(h, p).val, "name", JStr(<<>>))),
                     Store(actor, "role", Get(At(h, p).val, "role", JStr(<<>>))),
                     AppendTo(a, Ref(actor))>>
              ELSE <<>>])

\* the statements _convert_scene and _convert_gallery share: studio,
\* uniqueid, genres, actors.  nfo + 1 is the uniqueid dict, nfo + 2 the list
\* that is the default of get('tags', []), nfo + 3 the actors list
CommonWrites(h, raw, nfo) ==
    LET url == Get(raw, "url", None)
        performers == IF "performers" \in DOMAIN raw THEN At(h, raw["performers"])
                      ELSE JList(<<>>)
    IN  <<Store(nfo, "studio", Get(raw, "studio", JStr(<<>>)))>>
        \o When(Truthy(url),
                <<New(nfo + 1, JDict([type |-> JStr(<<"s", "t", "a", "s", "h">>),
                                      value |-> url, default |-> JBool(TRUE)])),
                  Store(nfo, "uniqueid", Ref(nfo + 1))>>)
        \o (IF "tags" \notin DOMAIN raw
            THEN <<New(nfo + 2, JList(<<>>)), Store(nfo, "genres", Ref(nfo + 2))>>
            ELSE When(At(h, raw["tags"]).jt = "list", <<Store(nfo, "genres", raw["tags"])>>))
        \o When(performers.jt = "list",
                ActorWrites(h, performers.val, nfo + 3)
                \o <<Store(nfo, "actors", Ref(nfo + 3))>>)

\* _convert_scene: nfo_data is the object nfo; v holds the scalars computed
SceneWrites(h, raw, nfo, v) ==
    <<New(nfo, JDict(EmptyDict)),
      Store(nfo, "title", Get(raw, "title", JStr(<<>>))),
      Store(nfo, "originaltitle", Get(raw, "title", JStr(<<>>))),
      Store(nfo, "plot", Get(raw, "details", JStr(<<>>))),
      Store(nfo, "userrating", v["userrating"])>>
    \o StoreIfSet(nfo, v, "premiered") \o StoreIfSet(nfo, v, "year")
    \o CommonWrites(h, raw, nfo)
    \o StoreIfSet(nfo, v, "runtime")

\* _convert_gallery
GalleryWrites(h, raw, nfo, v) ==
    <<New(nfo, JDict(EmptyDict)),
      Store(nfo, "title", Get(raw, "title", JStr(<<>>))),
      Store(nfo, "originaltitle", Get(raw, "title", JStr(<<>>))),
      Store(nfo, "plot", Get(raw, "details", JStr(<<>>)))>>
    \o StoreIfSet(nfo, v, "premiered") \o StoreIfSet(nfo, v, "year")
    \o CommonWrites(h, raw, nfo)
    \o <<Store(nfo, "media_type", v["media_type"])>>

\* _convert_performer: nfo + 1 is the details dict, nfo + 2 the list that is
\* the default of get('aliases', []), nfo + 3 the social dict
PerformerWrites(h, raw, nfo, v) ==
    <<New(nfo, JDict(EmptyDict)),
      Store(nfo, "name", Get(raw, "name", JStr(<<>>))),
      Store(nfo, "biography", v["biography"])>>
    \o StoreIfSet(nfo, v, "birthdate")
    \o When("aliases" \notin DOMAIN raw, <<New(nfo + 2, JList(<<>>))>>)
    \o <<New(nfo + 1,
             JDict([k \in {DetailsKeys[i] : i \in 1..Len(DetailsKeys)} |->
                       Get(raw, k, IF k = "aliases" THEN Ref(nfo + 2) ELSE JStr(<<>>))])),
         Store(nfo, "details", Ref(nfo + 1)),
         New(nfo + 3,
             JDict([k \in {SocialKeys[i] : i \in 1..Len(SocialKeys)} |->
                       Get(raw, k, JStr(<<>>))])),
         Store(nfo, "social", Ref(nfo + 3))>>

\* convert: the writes of the converter of the kind
ConvertWrites(h, root, kind, nfo, v) ==
    IF kind = "scene" THEN SceneWrites(h, h[root].val, nfo, v)
    ELSE IF kind = "performer" THEN PerformerWrites(h, h[root].val, nfo, v)
    ELSE GalleryWrites(h, h[root].val, nfo, v)

\* extract_images: self.extracted_images is the object ei; the record of the
\* i-th saved image is the object base + i, saved_images the object base
ExtractWrites(ei, records, saved, base) ==
    <<Clear(ei), New(base, JList(<<>>))>>
    \o Concat([i \in 1..Len(records) |->
                  <<New(base + i, JDict([type |-> JStr(records[i].type),
                                         filename |-> JStr(records[i].filename),
                                         size |-> JInt(records[i].size)])),
                    AppendTo(ei, Ref(base + i)),
                    AppendTo(base, JStr(saved[i]))>>])

(***************************************************************************)
(* A caller that holds one converter, one generator and one raw record and *)
(* calls convert, generate and extract_images in any order.  Object 1 is   *)
(* the converter's extracted_images list, object 2 the raw record, the     *)
(* objects after it the lists and dicts nested in the record; stash_data   *)
(* keeps the value the record had before the first call.                   *)
(***************************************************************************)
MaxObjects == 24

ExtractedId == 1
RawId == 2

\* a full scene or gallery record: 3 its tags, 4 its performers, 5 a
\* performer given as a mapping, 6 its file
HeapMovie ==
    <<JList(<<>>),
      JDict([title |-> TitleA, details |-> JStr(<<"p">>), rating |-> JInt(4),
             date |-> JStr(<<"2", "0", "2", "0", "-", "0", "1", "-", "0", "2">>),
             studio |-> JStr(<<"S">>), url |-> JStr(<<"u">>),
             tags |-> Ref(3), performers |-> Ref(4), file |-> Ref(6),
             cover |-> B64Jpeg, fanart |-> B64Gif]),
      JList(<<JStr(<<"x">>), JStr(<<"y">>)>>),
      JList(<<JStr(<<"P">>), Ref(5)>>),
      JDict([name |-> JStr(<<"Q">>)]),
      JDict([duration |-> JInt(125)])>>

\* a full performer record: 3 its aliases
HeapPerformer ==
    <<JList(<<>>),
      JDict([name |-> JStr(<<"N">>), gender |-> JStr(<<"F">>), height |-> JInt(170),
             birthdate |-> JStr(<<"1", "9", "9", "0", "-", "0", "5", "-", "0", "6">>),
             twitter |-> JStr(<<"t">>), aliases |-> Ref(3), image |-> B64PngUri]),
      JList(<<JStr(<<"J", "a", "n", "e">>), JStr(<<"J">>)>>)>>

\* a record with a title only
HeapBare == <<JList(<<>>), JDict([title |-> TitleA])>>

InitialHeaps == {HeapMovie, HeapPerformer, HeapBare}

InitHeap ==
    /\ pc = "idle"
    /\ heap \in InitialHeaps
    /\ nfo_ref = 0
    /\ stash_data = Deref(heap, Ref(RawId)).val
    /\ data_type \in {"scene", "performer", "gallery"}
    /\ nfo_data = None
    /\ args \in RenderArgs
    /\ nfo_xml = None
    /\ exit_code = -1
    /\ extracted_images = <<>>
    /\ saved_images = <<>>
    /\ written = <<>>
    /\ fs = [q \in {} |-> <<>>]
    /\ calls = 0
    /\ output_path = PathA
    /\ faults = NoFaults
    /\ frames = <<>>
    /\ DateIdle /\ FmtIdle
    /\ pads_year = TRUE
    /\ requests = <<>>

\* nfo_data = converter.convert(stash_data, data_type)
HeapConvert ==
    /\ FreshId(heap) + 3 + MaxPerformers <= MaxObjects
    /\ \E raw \in {Deref(heap, Ref(RawId)).val} :
          nfo_data' = convert(raw, data_type, pads_year)
    /\ nfo_data'.ok
    /\ nfo_ref' = FreshId(heap)
    /\ heap' = ApplyWrites(heap, ConvertWrites(heap, RawId, data_type, FreshId(heap),
                                               nfo_data'.val))
    /\ UNCHANGED <<pc, stash_data, data_type, dateVars, pads_year, requests, fmtVars, imgVars,
                   mainVars>>

\* nfo_xml = generator.generate(nfo_data, data_type): reads nfo_data, builds
\* an element tree of its own
HeapGenerate ==
    /\ nfo_ref # 0
    /\ \E nfo \in {Deref(heap, Ref(nfo_ref)).val} :
          nfo_xml' = generate(nfo, data_type, args.pretty, args.encoding)
    /\ UNCHANGED <<pc, recVars, dateVars, pads_year, requests, fmtVars, imgVars, args, exit_code,
                   heapVars>>

\* converter.extract_images(stash_data, output_path)
HeapExtract ==
    /\ FreshId(heap) + Len(image_fields) <= MaxObjects
    /\ \E raw \in {Deref(heap, Ref(RawId)).val} :
       \E r \in {extract_images([fs |-> fs, written |-> written,
                                 extracted_images |-> extracted_images],
                                raw, output_path, faults)} :
           /\ extracted_images' = r.st.extracted_images
           /\ written' = r.st.written
           /\ fs' = r.st.fs
           /\ saved_images' = r.saved
           /\ heap' = ApplyWrites(heap, ExtractWrites(ExtractedId, r.st.extracted_images,
                                                      r.saved, FreshId(heap)))
    /\ calls' = calls + 1
    /\ UNCHANGED <<pc, recVars, dateVars, pads_year, requests, fmtVars, output_path, faults,
                   frames, mainVars, nfo_ref>>

NextHeap == HeapConvert \/ HeapGenerate \/ HeapExtract

SpecHeap == InitHeap /\ [][NextHeap]_vars

\* the objects agree with the values convert and extract_images return
HeapAgrees ==
    /\ nfo_ref # 0 => Deref(heap, Ref(nfo_ref)).val = nfo_data.val
    /\ [i \in 1..Len(extracted_images) |->
           [type |-> JStr(extracted_images[i].type),
            filename |-> JStr(extracted_images[i].filename),
            size |-> JInt(extracted_images[i].size)]]
       = [i \in 1..Len(extracted_images) |-> Deref(heap, Ref(ExtractedId)).val[i].val]

(***************************************************************************)
(* C13: convert, for every kind, generate and extract_images never change  *)
(* the raw record: after any sequence of calls the record and every list   *)
(* and mapping nested in it have the values they had before the calls.     *)
(***************************************************************************)
C13_RawRecordUnchanged ==
    Deref(heap, Ref(RawId)).val = stash_data

\* C13 witness: a scene was converted and its images extracted twice; the
\* converted record shares the tags list with the raw record, and the raw
\* record still holds its two tags
C13_Witness ==
    /\ nfo_ref # 0 /\ data_type = "scene"
    /\ calls = 2
    /\ Len(heap[ExtractedId].val) = 2
    /\ "genres" \in DOMAIN heap[nfo_ref].val
    /\ heap[nfo_ref].val["genres"] = heap[RawId].val["tags"]
    /\ IsRef(heap[RawId].val["tags"])
    /\ Len(stash_data["tags"].val) = 2
    /\ nfo_xml # None

(***************************************************************************)
(* C23: within one extract_images call, when cover and poster, or image    *)
(* and thumbnail, are both saved with the same detected format, they name  *)
(* the same file path (poster.<ext>, <base>-thumb.<ext>): both are written *)
(* in scan order, the file finally holds the bytes of the later key, the   *)
(* returned list and extracted_images each hold that filename twice, and   *)
(* more filenames are returned than distinct files were written.           *)
(***************************************************************************)
C23_Pairs == {<<"cover", "poster">>, <<"image", "thumbnail">>}

C23_Bytes(f) == DecodeImage(stash_data[f].val).val
C23_Ext(f) == detect_image_format(C23_Bytes(f)).val

\* both keys of the pair were saved, with the same format
C23_BothSaved(p) ==
    /\ C9_Succeeds(p[1]) /\ C9_Succeeds(p[2])
    /\ C23_Ext(p[1]) = C23_Ext(p[2])

\* the filename the claim gives the pair
C23_Name(p) ==
    IF p[1] = "cover" THEN <<"p", "o", "s", "t", "e", "r", ".">> \o C23_Ext(p[1])
    ELSE output_path.stem \o <<"-", "t", "h", "u", "m", "b", ".">> \o C23_Ext(p[1])

C23_Path(p) == [dir |-> output_path.parent, name |-> C23_Name(p)]

\* the positions of the name in a sequence of names
C23_Occurrences(names, name) == {i \in 1..Len(names) : names[i] = name}

C23_SamePathWrittenTwice ==
    calls > 0 =>
        \A p \in C23_Pairs :
            C23_BothSaved(p) =>
                /\ \E i, j \in 1..Len(written) :
                      /\ i < j
                      /\ written[i].path = C23_Path(p) /\ written[i].bytes = C23_Bytes(p[1])
                      /\ written[j].path = C23_Path(p) /\ written[j].bytes = C23_Bytes(p[2])
                /\ fs[C23_Path(p)] = C23_Bytes(p[2])
                /\ Cardinality(C23_Occurrences(saved_images, C23_Name(p))) = 2
                /\ Cardinality(C23_Occurrences(
                       [i \in 1..Len(extracted_images) |-> extracted_images[i].filename],
                       C23_Name(p))) = 2
                /\ Len(saved_images) > Cardinality({written[i].path : i \in 1..Len(written)})

\* C23 witness: image and thumbnail were both saved as <base>-thumb.jpg with
\* different bytes, and three filenames were returned for two files
C23_Witness ==
    /\ calls > 0
    /\ C23_BothSaved(<<"image", "thumbnail">>)
    /\ C23_Bytes("image") # C23_Bytes("thumbnail")
    /\ Len(saved_images) = 3
    /\ Cardinality({written[i].path : i \in 1..Len(written)}) = 2

(***************************************************************************)
(* C21: two concurrent extract_images calls whose output paths lie in      *)
(* different directories never write the same file path, and after both    *)
(* have finished every file holds the bytes decoded by the one call that   *)
(* wrote it.  Two calls write the same path only if they share the output  *)
(* directory, and then the file is poster.<ext> or fanart.<ext>, or        *)
(* <base>-thumb.<ext> with the same base name in both calls.               *)
(***************************************************************************)
\* the paths the call wrote
C21_PathsOf(c) == {frames[c].wrote[i].path : i \in 1..Len(frames[c].wrote)}

\* the bytes of the last write of the call to the path
C21_LastBytes(c, q) ==
    LET is == {i \in 1..Len(frames[c].wrote) : frames[c].wrote[i].path = q}
    IN  frames[c].wrote[CHOOSE i \in is : \A j \in is : j <= i].bytes

C21_DifferentDirectories(c, d) == frames[c].path.parent # frames[d].path.parent

C21_AllDone == \A c \in CallerIds : frames[c].pc = "done"

\* poster.<ext> or fanart.<ext>
C21_IsPosterOrFanart(name) ==
    StartsWith(name, <<"p", "o", "s", "t", "e", "r", ".">>) \/ StartsWith(name, <<"f", "a", "n", "a", "r", "t", ".">>)

C21_NoConflictAcrossDirectories ==
    \A c, d \in CallerIds :
        /\ (c # d /\ C21_DifferentDirectories(c, d)) =>
              /\ C21_PathsOf(c) \cap C21_PathsOf(d) = {}
              /\ C21_AllDone =>
                    \A q \in C21_PathsOf(c) : fs[q] = C21_LastBytes(c, q)
        /\ c # d =>
              \A q \in C21_PathsOf(c) \cap C21_PathsOf(d) :
                  /\ ~C21_DifferentDirectories(c, d)
                  /\ \/ C21_IsPosterOrFanart(q.name)
                     \/ frames[c].path.stem = frames[d].path.stem

\* C21 witness: two calls with the same base name in different directories
\* have both finished; each wrote its own poster.jpg, with its own bytes
C21_Witness ==
    /\ C21_AllDone
    /\ C21_DifferentDirectories("A", "B")
    /\ frames["A"].path.stem = frames["B"].path.stem
    /\ \E q \in C21_PathsOf("A"), r \in C21_PathsOf("B") :
          /\ q.name = r.name /\ q.name = <<"p", "o", "s", "t", "e", "r", ".", "j", "p", "g">>
          /\ fs[q] # fs[r]

\* two calls that share the directory have written the same poster file, and
\* the call that finished holds bytes in it that the file no longer has
C21_SharedDirectoryRace ==
    /\ C21_AllDone
    /\ ~C21_DifferentDirectories("A", "B")
    /\ \E q \in C21_PathsOf("A") \cap C21_PathsOf("B") :
          C21_IsPosterOrFanart(q.name) /\ fs[q] # C21_LastBytes("A", q)

(***************************************************************************)
(* Specification SpecApi: main() of stash_to_nfo.py run with --stash-id or *)
(* --search.  The StashApp client is the environment: each of its calls    *)
(* returns a record or raises, and requests logs the calls in order.  The  *)
(* run connects, fetches the record (by id: scene, performer, gallery in   *)
(* turn; by search: search_scenes, then get_scene), settles the output     *)
(* path and goes on as the file-based run does from convert.  The file     *)
(* system starts empty, so the overwrite prompt is never reached.          *)
(***************************************************************************)
\* data_type is None: the kind of the record is still to be determined
NoType == "None"

Letters ==
    {"a", "b", "c", "d", "e", "f", "g", "h", "i", "j", "k", "l", "m",
     "n", "o", "p", "q", "r", "s", "t", "u", "v", "w", "x", "y", "z",
     "A", "B", "C", "D", "E", "F", "G", "H", "I", "J", "K", "L", "M",
     "N", "O", "P", "Q", "R", "S", "T", "U", "V", "W", "X", "Y", "Z"}

\* s.strip(), for a string whose only whitespace is the space
StripSpaces(s) ==
    LET inked == {i \in 1..Len(s) : s[i] # " "}
    IN  IF inked = {} THEN <<>>
        ELSE SubSeq(s, CHOOSE i \in inked : \A j \in inked : i <= j,
                       CHOOSE i \in inked : \A j \in inked : j <= i)

\* "".join(c for c in title if c.isalnum() or c in (' ', '-', '_')).strip()
\* .replace(" ", "_")
SafeTitle(title) ==
    LET kept == SelectSeq(title, LAMBDA c : c \in Letters \cup Digits \cup {" ", "-", "_"})
        stripped == StripSpaces(kept)
    IN  [i \in 1..Len(stripped) |-> IF stripped[i] = " " THEN "_" ELSE stripped[i]]

\* Path(f"{safe_title}.nfo"): a file of the working directory
GeneratedPath(safe_title) ==
    [parent |-> <<".">>,
     stem |-> IF safe_title = <<>> THEN <<".", "n", "f", "o">> ELSE safe_title,
     name |-> safe_title \o <<".", "n", "f", "o">>]

\* the output path of an API-based run: args.output_file when given, else a
\* name made of the record's title; a title that is null cannot be iterated
ApiOutputPathOf(a, data) ==
    IF a.output_file # None THEN [ok |-> TRUE, val |-> a.output_file]
    ELSE LET title == Get(data, "title",
                          JStr(<<"s", "t", "a", "s", "h", "_">> \o (IF Truthy(a.stash_id) THEN PyStr(a.stash_id)
                                               ELSE <<"s", "e", "a", "r", "c", "h">>)))
         IN  IF title.jt = "str"
             THEN [ok |-> TRUE, val |-> GeneratedPath(SafeTitle(title.val))]
             ELSE [ok |-> FALSE, exc |-> "TypeError"]

\* the command lines: --stash-id or --search, --type, --extract-images, the
\* output file or none
ApiArgs ==
    [type : {"scene", "performer", "gallery", "auto"},
     extract_images : BOOLEAN,
     pretty : {FALSE},
     encoding : {Utf8},
     output_file : {PathA, None},
     stash_id : {JInt(7)},
     search : {None}]
    \cup
    [type : {"scene", "auto"},
     extract_images : BOOLEAN,
     pretty : {FALSE},
     encoding : {Utf8},
     output_file : {PathA, None},
     stash_id : {None},
     search : {JStr(<<"q">>)}]

\* the records StashApp holds under an id, by kind; title is a string, null
\* or not selected
ApiRecords(kind) ==
    CASE kind = "scene" ->
            {[id |-> JInt(7), title |-> JStr(<<"A", " ", "b", ".", "c">>), cover |-> B64Jpeg],
             [id |-> JInt(7), title |-> None, file |-> JDict([duration |-> JInt(125)])]}
      [] kind = "performer" ->
            {[id |-> JInt(7), name |-> JStr(<<"N">>), image |-> B64PngUri]}
      [] OTHER ->
            {[id |-> JInt(7), title |-> JStr(<<"G">>), cover |-> B64Gif]}

\* what the StashApp library does for a call: it returns the record, returns
\* nothing, or raises (no connection, GraphQL error)
LibraryAnswers == {"record", "nothing", "raises"}

\* get_scene / get_performer / get_gallery: the record when the library
\* returned one, else RuntimeError (the ValueError of "not found" included)
get_record(answer, record) ==
    IF answer = "record" THEN [ok |-> TRUE, val |-> record]
    ELSE [ok |-> FALSE, exc |-> "RuntimeError"]

\* search_scenes: the list of summaries found, or RuntimeError
search_scenes(answer, summaries) ==
    IF answer = "raises" THEN [ok |-> FALSE, exc |-> "RuntimeError"]
    ELSE IF answer = "nothing" THEN [ok |-> TRUE, val |-> <<>>]
    ELSE [ok |-> TRUE, val |-> summaries]

\* every error of a lookup dropped, whatever --type was given
fetch_error_never_fatal(hint, kind) == FALSE

\* except Exception as e: if data_type == kind: print error; sys.exit(1)
FetchErrorIsFatal(hint, kind) == hint = kind

InitApi ==
    /\ HeapIdle
    /\ pc = "connect"
    /\ args \in ApiArgs
    /\ stash_data = None
    /\ data_type = "auto"
    /\ nfo_data = None
    /\ nfo_xml = None
    /\ exit_code = -1
    /\ pads_year = TRUE
    /\ requests = <<>>
    /\ extracted_images = <<>>
    /\ saved_images = <<>>
    /\ written = <<>>
    /\ fs = [q \in {} |-> <<>>]
    /\ calls = 0
    /\ output_path = None
    /\ faults = NoFaults
    /\ frames = <<>>
    /\ DateIdle /\ FmtIdle

\* StashApiClient(...): the connection test may raise ConnectionError, which
\* ends the run; then data_type = args.type if args.type != "auto" else None
ApiConnect ==
    /\ pc = "connect"
    /\ \E connected \in BOOLEAN :
          /\ requests' = Append(requests, [op |-> "connect", hint |-> args.type,
                                           raised |-> ~connected])
          /\ IF ~connected
             THEN pc' = "failed" /\ exit_code' = 1 /\ UNCHANGED data_type
             ELSE /\ UNCHANGED exit_code
                  /\ IF Truthy(args.stash_id)
                     THEN /\ pc' = "get_scene"
                          /\ data_type' = IF args.type # "auto" THEN args.type ELSE NoType
                     ELSE pc' = "search" /\ UNCHANGED data_type
    /\ UNCHANGED <<stash_data, nfo_data, dateVars, pads_year, fmtVars, imgVars, args, nfo_xml,
                   heapVars>>

\* one of the three lookups by id: skipped unless data_type is the kind or
\* None (and, after the first, no record was found yet); an error ends the
\* run when data_type is the kind, and is dropped when data_type is None
ApiGet(kind, op, here, next) ==
    /\ pc = here
    /\ IF data_type \in {kind, NoType} /\ (kind = "scene" \/ stash_data = None)
       THEN \E answer \in LibraryAnswers, record \in ApiRecords(kind) :
               LET r == get_record(answer, record)
               IN  /\ requests' = Append(requests, [op |-> op, hint |-> data_type,
                                                    raised |-> ~r.ok])
                   /\ IF r.ok
                      THEN /\ stash_data' = r.val
                           /\ data_type' = kind
                           /\ pc' = next
                           /\ UNCHANGED exit_code
                      ELSE /\ UNCHANGED <<stash_data, data_type>>
                           /\ IF FetchErrorIsFatal(data_type, kind)
                              THEN pc' = "failed" /\ exit_code' = 1
                              ELSE pc' = next /\ UNCHANGED exit_code
       ELSE /\ pc' = next
            /\ UNCHANGED <<requests, stash_data, data_type, exit_code>>
    /\ UNCHANGED <<nfo_data, dateVars, pads_year, fmtVars, imgVars, args, nfo_xml, heapVars>>

ApiGetScene == ApiGet("scene", "get_scene", "get_scene", "get_performer")

ApiGetPerformer == ApiGet("performer", "get_performer", "get_performer", "get_gallery")

ApiGetGallery == ApiGet("gallery", "get_gallery", "get_gallery", "found")

\* if not stash_data: "Could not find any data", exit 1; else
\* args.type = data_type
ApiFound ==
    /\ pc = "found"
    /\ IF stash_data = None
       THEN pc' = "failed" /\ exit_code' = 1 /\ UNCHANGED args
       ELSE /\ pc' = "output_path"
            /\ args' = [args EXCEPT !.type = data_type]
            /\ UNCHANGED exit_code
    /\ UNCHANGED <<recVars, dateVars, pads_year, requests, fmtVars, imgVars, nfo_xml, heapVars>>

\* results = stash_client.search_scenes(search_query, limit=1): an error, or
\* no result, ends the run
ApiSearch ==
    /\ pc = "search"
    /\ \E answer \in LibraryAnswers :
          LET r == search_scenes(answer, <<[id |-> JInt(7)]>>)
          IN  /\ requests' = Append(requests, [op |-> "search_scenes", hint |-> "search",
                                               raised |-> ~r.ok])
              /\ IF r.ok /\ r.val # <<>>
                 THEN pc' = "search_get" /\ UNCHANGED exit_code
                 ELSE pc' = "failed" /\ exit_code' = 1
    /\ UNCHANGED <<recVars, dateVars, pads_year, fmtVars, imgVars, args, nfo_xml, heapVars>>

\* stash_data = stash_client.get_scene(scene_id); args.type = "scene"
ApiSearchGet ==
    /\ pc = "search_get"
    /\ \E answer \in LibraryAnswers, record \in ApiRecords("scene") :
          LET r == get_record(answer, record)
          IN  /\ requests' = Append(requests, [op |-> "get_scene", hint |-> "search",
                                               raised |-> ~r.ok])
              /\ IF r.ok
                 THEN /\ stash_data' = r.val
                      /\ args' = [args EXCEPT !.type = "scene"]
                      /\ pc' = "output_path"
                      /\ UNCHANGED exit_code
                 ELSE /\ pc' = "failed" /\ exit_code' = 1
                      /\ UNCHANGED <<stash_data, args>>
    /\ UNCHANGED <<data_type, nfo_data, dateVars, pads_year, fmtVars, imgVars, nfo_xml, heapVars>>

\* the output path of the run; an exception here is caught with those of the
\* client and ends the run
ApiOutputPath ==
    /\ pc = "output_path"
    /\ LET r == ApiOutputPathOf(args, stash_data)
       IN  IF r.ok
           THEN output_path' = r.val /\ pc' = "detect" /\ UNCHANGED exit_code
           ELSE pc' = "failed" /\ exit_code' = 1 /\ UNCHANGED output_path
    /\ UNCHANGED <<recVars, dateVars, pads_year, requests, fmtVars, extracted_images,
                   saved_images, written, fs, calls, faults, frames, args, nfo_xml, heapVars>>

NextApi ==
    \/ ApiConnect
    \/ ApiGetScene
    \/ ApiGetPerformer
    \/ ApiGetGallery
    \/ ApiFound
    \/ ApiSearch
    \/ ApiSearchGet
    \/ ApiOutputPath
    \/ MainDetect
    \/ MainConvert
    \/ MainGenerate
    \/ MainExtract
    \/ MainWrite

SpecApi == InitApi /\ [][NextApi]_vars

\* the fetch-by-id and search operations of the client
C22_FetchOps == {"get_scene", "get_performer", "get_gallery", "search_scenes"}

C22_Raised(i) == requests[i].op \in C22_FetchOps /\ requests[i].raised

C22_NoFile == DOMAIN fs = {}

\* the lookup tried after a failed one when the kind is undetermined
C22_NextOp(op) == IF op = "get_scene" THEN "get_performer" ELSE "get_gallery"

====
